---- MODULE Spec2Model ----
(***************************************************************************)
(* yt-relay: a gateway that relays /search, /videos and /playlistItems to  *)
(* an upstream video API, guarded by a channel/playlist allow-list         *)
(* (whitelist.YouTubeAPI) and fronted by a response cache (middleware.Cache *)
(* on entry, saveOKCache/saveErrCache on exit).                             *)
(*                                                                         *)
(* Time is in seconds.  Strings that the code concatenates or parses are   *)
(* sequences of tokens (paths, URIs) or of characters (header values).     *)
(***************************************************************************)
EXTENDS Integers, Sequences, FiniteSets, TLC

\* ------------------------------------------------------------------ bounds
\* goroutines serving requests at the same time
NumReqs == 2
\* requests accepted over a run
MaxArrivals == 2
\* the clock stops advancing here
MaxTime == 90
\* seconds that pass in one step of the clock
TickStep == 30

\* ------------------------------------------------------- program constants
\* const refreshCooldown = 1 * time.Minute
refreshCooldown == 60
\* time.Since of the zero time.Time saturates at the largest Duration
\* (math.MaxInt64 ns, about 9223372036 s); here the largest number TLC holds
MaxDuration == 2147483647
StatusOK == 200
StatusBadRequest == 400
StatusInternalServerError == 500

ErrorEmptyPart == "part cannot be empty"
ErrorEmptyID == "id cannot be empty"
TTLHeader == "Cache-Set-TTL"

Reqs == 1..NumReqs

\* ------------------------------------------------------------ identifiers
PlaylistIdSet == {"P1", "P2"}
AppName == "ytrelay"
EmptyMap == [x \in {} |-> TRUE]

\* ---------------------------------------------------------- configuration
\* config.Cache
CacheConf(enabled, disabled, ttl, errTtl, overwrite) ==
    [IsEnabled |-> enabled, DisabledAPIs |-> disabled, TTL |-> ttl,
     ErrorTTL |-> errTtl, OverwriteTTL |-> overwrite]

\* config.Whitelists: key is the id, value says whether it is effective
ConfChannelIDs == [c \in {"C1", "C2"} |-> c = "C1"]

\* config.Conf as loaded (the fields the server reads)
Conf(cache, hasRedis, playlists) ==
    [Cache |-> cache, HasRedis |-> hasRedis,
     Whitelists |-> [ChannelIDs |-> ConfChannelIDs, PlaylistIDs |-> playlists]]

ConfCached ==
    Conf(CacheConf(TRUE, EmptyMap, 60, 30, [x \in {} |-> 0]), TRUE,
         [p \in {"P1"} |-> FALSE])

ConfPlain ==
    Conf(CacheConf(FALSE, EmptyMap, 0, 0, [x \in {} |-> 0]), FALSE, EmptyMap)

ConfNoProvider ==
    Conf(CacheConf(TRUE, EmptyMap, 60, 30, [x \in {} |-> 0]), FALSE, EmptyMap)


\* ---------------------------------------------------------------- strings
Digits == {"0", "1", "2", "3", "4", "5", "6", "7", "8", "9"}

DigitVal(c) ==
    CASE c = "0" -> 0 [] c = "1" -> 1 [] c = "2" -> 2 [] c = "3" -> 3
      [] c = "4" -> 4 [] c = "5" -> 5 [] c = "6" -> 6 [] c = "7" -> 7
      [] c = "8" -> 8 [] c = "9" -> 9

\* a 64-bit integer (Go's int and int64 on the build's platform, and
\* time.Duration): four 16-bit limbs, the lowest first, two's complement
Int64Of(n) ==
    IF n >= 0 THEN <<n % 65536, n \div 65536, 0, 0>>
    ELSE LET m == (0 - n) - 1
         IN <<65535 - (m % 65536), 65535 - (m \div 65536), 65535, 65535>>

\* x * m + c on 64 bits, the overflow dropped (m and c small)
MulAdd(x, m, c) ==
    LET t1 == x[1] * m + c
        t2 == x[2] * m + (t1 \div 65536)
        t3 == x[3] * m + (t2 \div 65536)
        t4 == x[4] * m + (t3 \div 65536)
    IN <<t1 % 65536, t2 % 65536, t3 % 65536, t4 % 65536>>

\* -x on 64 bits
Negate(x) == MulAdd(<<65535 - x[1], 65535 - x[2], 65535 - x[3], 65535 - x[4]>>, 1, 1)

IsNegative(x) == x[4] >= 32768
IsPositive(x) == ~IsNegative(x) /\ x # <<0, 0, 0, 0>>

\* x divided by m (x not negative, m small): quotient and remainder
DivSmall(x, m) ==
    LET t4 == x[4]
        t3 == (t4 % m) * 65536 + x[3]
        t2 == (t3 % m) * 65536 + x[2]
        t1 == (t2 % m) * 65536 + x[1]
    IN [q |-> <<t1 \div m, t2 \div m, t3 \div m, t4 \div m>>, rem |-> t1 % m]

\* x (not negative) as a number of the model; what lies beyond the model's
\* clock by far is 2^30
Small(x) ==
    IF x[3] = 0 /\ x[4] = 0 /\ x[2] < 16384 THEN x[2] * 65536 + x[1] ELSE 1073741824

RECURSIVE ParseDigits(_, _)
ParseDigits(s, acc) ==
    IF s = <<>> THEN acc ELSE ParseDigits(Tail(s), MulAdd(acc, 10, DigitVal(Head(s))))

RECURSIVE StripZeros(_)
StripZeros(s) == IF Len(s) > 1 /\ Head(s) = "0" THEN StripZeros(Tail(s)) ELSE s

\* the digits of math.MaxInt64 and of -math.MinInt64
MaxInt64Digits ==
    <<"9", "2", "2", "3", "3", "7", "2", "0", "3", "6", "8", "5", "4", "7", "7", "5",
      "8", "0", "7">>
MinInt64Digits == [MaxInt64Digits EXCEPT ![19] = "8"]

\* a > b for digit strings without leading zeros
DigitsGreater(a, b) ==
    \/ Len(a) > Len(b)
    \/ /\ Len(a) = Len(b)
       /\ \E i \in 1..Len(a) :
             /\ DigitVal(a[i]) > DigitVal(b[i])
             /\ \A j \in 1..(i - 1) : a[j] = b[j]

\* strconv.Atoi on a string given as its characters: an optional sign, then
\* one or more decimal digits; anything else, and a value out of the range
\* of int, is an error
Atoi(s) ==
    LET signed == s # <<>> /\ Head(s) \in {"+", "-"}
        body == IF signed THEN Tail(s) ELSE s
        neg == signed /\ Head(s) = "-"
    IN IF body = <<>> \/ \E i \in 1..Len(body) : body[i] \notin Digits
       THEN [err |-> TRUE, val |-> Int64Of(0)]
       ELSE IF DigitsGreater(StripZeros(body),
                             IF neg THEN MinInt64Digits ELSE MaxInt64Digits)
       THEN [err |-> TRUE, val |-> Int64Of(0)]
       ELSE [err |-> FALSE,
             val |-> IF neg THEN Negate(ParseDigits(body, Int64Of(0)))
                     ELSE ParseDigits(body, Int64Of(0))]

\* time.Duration(seconds) * time.Second: the product on 64 bits
Duration(seconds) == MulAdd(MulAdd(MulAdd(seconds, 1000, 0), 1000, 0), 1000, 0)

\* the expiry a duration amounts to when given to SetNX, in seconds: some
\* negative number for a negative duration, 0 for the zero duration, and a
\* positive duration rounded up to the second (the clock ticks in seconds)
Seconds(d) ==
    IF IsNegative(d) THEN 0 - 1
    ELSE LET us == DivSmall(d, 1000)
             ms == DivSmall(us.q, 1000)
             sec == DivSmall(ms.q, 1000)
         IN Small(sec.q) + (IF us.rem + ms.rem + sec.rem > 0 THEN 1 ELSE 0)

\* -------------------------------------------------------------- cms fetch
\* a *string field of a show: nil, or the text, character by character
FieldNil == [nil |-> TRUE, text |-> <<>>]
FieldOf(text) == [nil |-> FALSE, text |-> text]

\* " https://y.tv/playlist?list=<id>:title"
FieldUrl(id) ==
    FieldOf(<<" ", "h", "t", "t", "p", "s", ":", "/", "/", "y", ".", "t", "v", "/",
              "p", "l", "a", "y", "l", "i", "s", "t", "?", "l", "i", "s", "t", "=">>
            \o id \o <<":", "t", "i", "t", "l", "e">>)
\* "https://y.tv/watch?v=x&list=<id>"
FieldAmp(id) ==
    FieldOf(<<"h", "t", "t", "p", "s", ":", "/", "/", "y", ".", "t", "v", "/",
              "w", "a", "t", "c", "h", "?", "v", "=", "x", "&", "l", "i", "s", "t", "=">>
            \o id)
\* "?list=&list=<first>&list=<second>\n": a marker without an id, then two ids
FieldTwo(first, second) ==
    FieldOf(<<"?", "l", "i", "s", "t", "=", "&", "l", "i", "s", "t", "=">> \o first
            \o <<"&", "l", "i", "s", "t", "=">> \o second \o <<"\n">>)
\* "https://y.tv/watch?v=x;list=P1": no marker
FieldNoList ==
    FieldOf(<<"h", "t", "t", "p", "s", ":", "/", "/", "y", ".", "t", "v", "/",
              "w", "a", "t", "c", "h", "?", "v", "=", "x", ";", "l", "i", "s", "t", "=",
              "P", "1">>)
\* space, tab, vertical tab, line feed
FieldBlank == FieldOf(<<" ", "\t", "", "\n">>)

\* showFields{PlayList01, PlayList02, TrailerPlaylist}
Show(a, b, c) == <<a, b, c>>

\* what the CMS answers to the POST of showsQuery
CmsReply(postErr, status, decodeErr, errors, shows) ==
    [postErr |-> postErr, status |-> status, decodeErr |-> decodeErr,
     errors |-> errors, shows |-> shows]

CmsReplySet ==
    { CmsReply(TRUE, 0, FALSE, <<>>, <<>>),
      CmsReply(FALSE, 500, FALSE, <<>>, <<>>),
      CmsReply(FALSE, 200, TRUE, <<>>, <<>>),
      CmsReply(FALSE, 200, FALSE, <<"boom">>, <<Show(FieldUrl(<<"P", "1">>), FieldNil, FieldNil)>>),
      CmsReply(FALSE, 200, FALSE, <<>>, <<>>),
      CmsReply(FALSE, 200, FALSE, <<>>, <<Show(FieldNil, FieldBlank, FieldNoList)>>),
      CmsReply(FALSE, 200, FALSE, <<>>, <<Show(FieldUrl(<<"P", "1">>), FieldNil, FieldNoList)>>),
      CmsReply(FALSE, 200, FALSE, <<>>, <<Show(FieldBlank, FieldAmp(<<"P", "2">>), FieldNil)>>),
      CmsReply(FALSE, 200, FALSE, <<>>,
               <<Show(FieldUrl(<<"P", "1">>), FieldNil, FieldNil),
                 Show(FieldNil, FieldTwo(<<"P", "1">>, <<"P", "2">>), FieldAmp(<<"P", "2">>))>>) }

\* unicode.IsSpace: tab, line feed, vertical tab (U+000B), form feed, carriage
\* return, space, next line (U+0085), no-break space (U+00A0) and ogham space
\* mark (U+1680); the spaces from U+2000 on cannot be written in a string here
Spaces == {"\t", "\n", "", "\f", "\r", " ", "", " ", " "}

RECURSIVE TrimLeft(_)
TrimLeft(s) == IF s # <<>> /\ Head(s) \in Spaces THEN TrimLeft(Tail(s)) ELSE s

RECURSIVE TrimRight(_)
TrimRight(s) ==
    IF s # <<>> /\ s[Len(s)] \in Spaces THEN TrimRight(SubSeq(s, 1, Len(s) - 1)) ELSE s

\* strings.TrimSpace
TrimSpace(s) == TrimRight(TrimLeft(s))

\* [A-Za-z0-9_-]
IdChars ==
    {"A", "B", "C", "D", "E", "F", "G", "H", "I", "J", "K", "L", "M", "N", "O", "P", "Q",
     "R", "S", "T", "U", "V", "W", "X", "Y", "Z",
     "a", "b", "c", "d", "e", "f", "g", "h", "i", "j", "k", "l", "m", "n", "o", "p", "q",
     "r", "s", "t", "u", "v", "w", "x", "y", "z",
     "0", "1", "2", "3", "4", "5", "6", "7", "8", "9", "_", "-"}

\* playlistIDRegex `[?&]list=([A-Za-z0-9_-]+)`: the places where it matches,
\* "?" or "&", then "list=", then at least one id character
ListMatches(s) ==
    { i \in 1..(Len(s) - 6) :
        /\ s[i] \in {"?", "&"}
        /\ SubSeq(s, i + 1, i + 5) = <<"l", "i", "s", "t", "=">>
        /\ s[i + 6] \in IdChars }

Least(S) == CHOOSE i \in S : \A j \in S : i <= j

\* the group `([A-Za-z0-9_-]+)`: the longest run of id characters s starts with
RECURSIVE IdRun(_)
IdRun(s) == IF s # <<>> /\ Head(s) \in IdChars THEN Head(s) \o IdRun(Tail(s)) ELSE ""

\* cms.extractPlaylistID; "" when there is no id
extractPlaylistID(field) ==
    IF field.nil THEN ""
    ELSE LET s == TrimSpace(field.text)
             matches == ListMatches(s)
         IN IF s = <<>> THEN ""
            ELSE IF matches = {} THEN ""
            ELSE IdRun(SubSeq(s, Least(matches) + 6, Len(s)))

\* ids of every field of every show, "" dropped
ExtractedIDs(shows) ==
    { extractPlaylistID(shows[i][j]) : i \in 1..Len(shows), j \in 1..3 } \ {""}

\* cms.FetchPlaylistIDs on the CMS's reply: (map, err)
FetchPlaylistIDs(reply) ==
    IF reply.postErr \/ reply.status # StatusOK \/ reply.decodeErr \/ Len(reply.errors) > 0
    THEN [err |-> TRUE, ids |-> EmptyMap]
    ELSE [err |-> FALSE, ids |-> [p \in ExtractedIDs(reply.shows) |-> TRUE]]

\* -------------------------------------------------------------- allow-list
\* (presence alone)
PresentIn(m, id) == id \in DOMAIN m

\* `effective, present := m[id]; present && effective`
EffectiveIn(m, id) == id \in DOMAIN m /\ m[id]

\* time.Time: the zero value, or a reading of the clock
ZeroTime == [isZero |-> TRUE, sec |-> 0]
TimeAt(t) == [isZero |-> FALSE, sec |-> t]

\* ---------------------------------------------------------------- requests
\* the query parameters bound into ytrelay.Options; malformed: BindQuery fails
Query(malformed, part, channelId, playlistId, ids) ==
    [malformed |-> malformed, part |-> part, channelId |-> channelId,
     playlistId |-> playlistId, ids |-> ids]

\* the Cache-Set-TTL header: request.Header[key] and whether the key is there
NoHeader == [present |-> FALSE, values |-> <<>>]
Header(value) == [present |-> TRUE, values |-> <<value>>]

\* an inbound GET: Path = dir ++ name, the query, the TTL header
\* (rdir: the directory in the request line, which URL.Path rewriting keeps)
Request(dir, name, q, hdr) ==
    [dir |-> dir, rdir |-> dir, name |-> name, q |-> q, hdr |-> hdr]

ApiDir == "/api/youtube/"
V3Dir == "/youtube/v3/"

NoQuery == Query(FALSE, "", "", "", "")
NoRequest == Request(V3Dir, "", NoQuery, NoHeader)

PlaylistReq(id) ==
    Request(V3Dir, "playlistItems", Query(FALSE, "snippet", "", id, ""), NoHeader)
SearchReq(id) == Request(V3Dir, "search", Query(FALSE, "snippet", id, "", ""), NoHeader)
VideosReq(ids, hdr) == Request(V3Dir, "videos", Query(FALSE, "snippet", "", "", ids), hdr)

\* the raw query string, as tokens; a malformed request carries a parameter
\* that does not bind
RawQuery(q) ==
    (IF q.part = "" THEN <<>> ELSE <<"part=", q.part>>)
    \o (IF q.channelId = "" THEN <<>> ELSE <<"&channelId=", q.channelId>>)
    \o (IF q.playlistId = "" THEN <<>> ELSE <<"&playlistId=", q.playlistId>>)
    \o (IF q.ids = "" THEN <<>> ELSE <<"&id=", q.ids>>)
    \o (IF q.malformed THEN <<"&maxResults=", "abc">> ELSE <<>>)

WithQuery(path, q) ==
    IF RawQuery(q) = <<>> THEN path ELSE path \o <<"?">> \o RawQuery(q)

\* request.RequestURI: the request line as received, never rewritten
RequestURI(request) == WithQuery(<<request.rdir, request.name>>, request.q)

\* the rewrite middleware: /api/youtube/* is handled again as /youtube/v3/*
Rewrite(request) ==
    IF request.dir = ApiDir THEN [request EXCEPT !.dir = V3Dir] ELSE request

\* request.URL.Path and request.URL.String()
URLPath(request) == <<request.dir, request.name>>
URLString(request) == WithQuery(URLPath(request), request.q)

\* ------------------------------------------------------------------- cache
\* a part of a URI the key deriver cannot encode
BadToken == "<unencodable>"

\* cache.GetCacheKey(namespace, uri): (key, err); it fails on input it cannot
\* encode and on nothing else
GetCacheKey(namespace, uri) ==
    IF \E i \in 1..Len(uri) : uri[i] = BadToken THEN [err |-> TRUE, key |-> <<>>]
    ELSE [err |-> FALSE, key |-> <<namespace, ".cache.">> \o uri]

\* json.Marshal of a response value: its bytes
Marshal(resp) == <<"json">> \o resp

\* json.Marshal(cache.HTTP{StatusCode, Response}): the stored string
MarshalHTTP(code, bytes) == [json |-> TRUE, statusCode |-> code, response |-> bytes]

\* json.Unmarshal of a stored string into cache.HTTP
UnmarshalHTTP(v) ==
    IF v.json THEN [err |-> FALSE, StatusCode |-> v.statusCode, Response |-> v.response]
    ELSE [err |-> TRUE, StatusCode |-> 0, Response |-> <<>>]

\* a map lookup that yields the zero value for a missing key
Lookup(m, k, zero) == IF k \in DOMAIN m THEN m[k] ELSE zero

\* (SET without NX: the latest write wins)
SetAlways(st, at, key, val, ttl) ==
    IF ttl < 0 THEN [store |-> st, applied |-> FALSE, err |-> TRUE]
    ELSE [store |-> [k \in DOMAIN st \cup {key} |->
                        IF k = key
                        THEN [val |-> val, exp |-> IF ttl = 0 THEN 0 - 1 ELSE at + ttl]
                        ELSE st[k]],
          applied |-> TRUE, err |-> FALSE]

\* Redis SET key val NX [EX ttl]: stores only when the key is absent; a zero
\* ttl stores without expiry, a negative one is refused by the server
SetNX(st, at, key, val, ttl) ==
    IF ttl < 0 THEN [store |-> st, applied |-> FALSE, err |-> TRUE]
    ELSE IF key \in DOMAIN st THEN [store |-> st, applied |-> FALSE, err |-> FALSE]
    ELSE [store |-> [k \in DOMAIN st \cup {key} |->
                        IF k = key
                        THEN [val |-> val, exp |-> IF ttl = 0 THEN 0 - 1 ELSE at + ttl]
                        ELSE st[k]],
          applied |-> TRUE, err |-> FALSE]

\* keys whose expiry has not passed at time t
Unexpired(st, t) == { k \in DOMAIN st : st[k].exp < 0 \/ st[k].exp > t }

\* (the value taken without the check that it is positive)
getHeaderTTLUnchecked(request) ==
    IF ~request.hdr.present THEN [ttl |-> 0, isPresenting |-> FALSE, err |-> FALSE]
    ELSE IF Len(request.hdr.values) = 0
    THEN [ttl |-> 0, isPresenting |-> TRUE, err |-> TRUE]
    ELSE LET a == Atoi(request.hdr.values[1])
         IN IF a.err THEN [ttl |-> 0, isPresenting |-> TRUE, err |-> TRUE]
            ELSE [ttl |-> Seconds(Duration(a.val)), isPresenting |-> TRUE, err |-> FALSE]

\* route.getHeaderTTL: (ttl, isPresenting, err)
getHeaderTTL(request) ==
    IF ~request.hdr.present THEN [ttl |-> 0, isPresenting |-> FALSE, err |-> FALSE]
    ELSE IF Len(request.hdr.values) = 0
    THEN [ttl |-> 0, isPresenting |-> TRUE, err |-> TRUE]
    ELSE LET a == Atoi(request.hdr.values[1])
         IN IF a.err THEN [ttl |-> 0, isPresenting |-> TRUE, err |-> TRUE]
            ELSE IF ~IsPositive(a.val) THEN [ttl |-> 0, isPresenting |-> TRUE, err |-> TRUE]
            ELSE [ttl |-> Seconds(Duration(a.val)), isPresenting |-> TRUE, err |-> FALSE]

\* route.getResponseCacheTTL: (ttl, isDisabled)
getResponseCacheTTL(cacheConf, request) ==
    LET uri == RequestURI(request)
        base == IF uri \in DOMAIN cacheConf.OverwriteTTL
                THEN Seconds(Duration(Int64Of(cacheConf.OverwriteTTL[uri])))
                ELSE Seconds(Duration(Int64Of(cacheConf.TTL)))
        h == getHeaderTTL(request)
    IN [ttl |-> IF ~h.err /\ h.isPresenting THEN h.ttl ELSE base,
        isDisabled |-> Lookup(cacheConf.DisabledAPIs, uri, FALSE)]

\* what a save does to the store, and the SetNX calls that reached it
NoSave(st) == [store |-> st, calls |-> <<>>]

\* (the key derived from the request line as received)
saveCacheByRequestURI(st, at, request, respCode, resp, ttl, fail) ==
    LET s == MarshalHTTP(respCode, Marshal(resp))
        k == GetCacheKey(AppName, RequestURI(request))
        key == IF k.err THEN <<>> ELSE k.key
        r == SetNX(st, at, key, s, ttl)
    IN IF fail \/ r.err THEN NoSave(st)
       ELSE [store |-> r.store,
             calls |-> <<[key |-> key, val |-> s, applied |-> r.applied]>>]

\* route.saveCache; fail: the SetNX call ends in a transport error
saveCache(st, at, request, respCode, resp, ttl, fail) ==
    LET s == MarshalHTTP(respCode, Marshal(resp))
        k == GetCacheKey(AppName, URLString(request))
        key == IF k.err THEN <<>> ELSE k.key
        r == SetNX(st, at, key, s, ttl)
    IN IF fail \/ r.err THEN NoSave(st)
       ELSE [store |-> r.store,
             calls |-> <<[key |-> key, val |-> s, applied |-> r.applied]>>]

\* (a save that does not look at cacheConf.IsEnabled)
saveOKCacheAlways(cacheConf, st, at, request, resp, fail) ==
    LET t == getResponseCacheTTL(cacheConf, request)
    IN IF ~t.isDisabled
       THEN saveCache(st, at, request, StatusOK, resp, t.ttl, fail)
       ELSE NoSave(st)

\* route.saveOKCache
saveOKCache(cacheConf, st, at, request, resp, fail) ==
    IF cacheConf.IsEnabled
    THEN LET t == getResponseCacheTTL(cacheConf, request)
         IN IF ~t.isDisabled
            THEN saveCache(st, at, request, StatusOK, resp, t.ttl, fail)
            ELSE NoSave(st)
    ELSE NoSave(st)

\* route.saveErrCache
saveErrCache(cacheConf, st, at, request, httpResponseCode, resp, fail) ==
    IF cacheConf.IsEnabled
    THEN LET t == getResponseCacheTTL(cacheConf, request)
         IN IF ~t.isDisabled
            THEN saveCache(st, at, request, StatusOK, resp,
                           Seconds(Duration(Int64Of(cacheConf.ErrorTTL))), fail)
            ELSE NoSave(st)
    ELSE NoSave(st)

\* ---------------------------------------------------------------- handlers
\* api.ErrorResp{Error: msg}
ErrorResp(msg) == <<"error">> \o msg

\* what the upstream relay answers: an error, or items with their channel ids
UpstreamSet(name) ==
    IF name = "videos"
    THEN { [err |-> TRUE, items |-> <<>>],
           [err |-> FALSE, items |-> <<"C1">>],
           [err |-> FALSE, items |-> <<"C1", "C3">>] }
    ELSE { [err |-> TRUE, items |-> <<>>], [err |-> FALSE, items |-> <<"C1">>] }

\* the service relay.New returns is the YouTube one
RelayIsYouTube == TRUE

\* whitelist.YouTubeAPI.ValidateChannelID
ValidateChannelID(channelIDs, channelID) == EffectiveIn(channelIDs, channelID)

\* route.validateYouTubeVideoListResponse: the first item whose channel is not
\* allowed, 0 when there is none
FirstInvalidItem(channelIDs, items) ==
    LET bad == { i \in 1..Len(items) : ~ValidateChannelID(channelIDs, items[i]) }
    IN IF bad = {} THEN 0 ELSE Least(bad)

\* no call of the upstream relay
NoUp == [err |-> FALSE, items |-> <<>>]

\* how a handler ends: the status and value it responds with, which save it
\* calls first ("ok": saveOKCache, "err": saveErrCache, "none"), and the
\* relay's reply when it got as far as calling the relay
Outcome(status, resp, save, up) ==
    [status |-> status, resp |-> resp, save |-> save, up |-> up]

BindError == ErrorResp(<<"bind: invalid syntax">>)
UpstreamError == ErrorResp(<<"upstream failed">>)
ChannelError(id) == <<"channelId(", id, ") is invalid">>

\* the /search handler
SearchHandler(channelIDs, q, up) ==
    IF q.malformed THEN Outcome(StatusBadRequest, BindError, "err", NoUp)
    ELSE IF q.part = "" THEN Outcome(StatusBadRequest, ErrorResp(<<ErrorEmptyPart>>), "err", NoUp)
    ELSE IF ~ValidateChannelID(channelIDs, q.channelId)
    THEN Outcome(StatusBadRequest, ErrorResp(ChannelError(q.channelId)), "err", NoUp)
    ELSE IF up.err THEN Outcome(StatusInternalServerError, UpstreamError, "err", up)
    ELSE Outcome(StatusOK, <<"items">> \o up.items, "ok", up)

\* the /videos handler
VideosHandler(channelIDs, q, up) ==
    IF q.malformed THEN Outcome(StatusBadRequest, BindError, "none", NoUp)
    ELSE IF q.part = "" THEN Outcome(StatusBadRequest, ErrorResp(<<ErrorEmptyPart>>), "err", NoUp)
    ELSE IF q.ids = "" THEN Outcome(StatusBadRequest, ErrorResp(<<ErrorEmptyID>>), "err", NoUp)
    ELSE IF up.err THEN Outcome(StatusInternalServerError, UpstreamError, "err", up)
    ELSE IF RelayIsYouTube /\ FirstInvalidItem(channelIDs, up.items) # 0
    THEN Outcome(StatusBadRequest,
                 ErrorResp(<<"some video's channel id is invalid: ">>
                           \o ChannelError(up.items[FirstInvalidItem(channelIDs, up.items)])),
                 "err", up)
    ELSE Outcome(StatusOK, <<"items">> \o up.items, "ok", up)

\* the /playlistItems handler before the allow-list check: does it reject?
PlaylistItemsRejects(q) == q.malformed \/ q.part = ""

PlaylistItemsEarly(q) ==
    IF q.malformed THEN Outcome(StatusBadRequest, BindError, "err", NoUp)
    ELSE Outcome(StatusBadRequest, ErrorResp(<<ErrorEmptyPart>>), "err", NoUp)

\* (the verdict ignored)
PlaylistItemsUnchecked(ok, q, up) ==
    IF up.err THEN Outcome(StatusInternalServerError, UpstreamError, "err", up)
    ELSE Outcome(StatusOK, <<"items">> \o up.items, "ok", up)

\* the /playlistItems handler from the allow-list verdict on
PlaylistItemsHandler(ok, q, up) ==
    IF ~ok
    THEN Outcome(StatusBadRequest,
                 ErrorResp(<<"playlistId(", q.playlistId, ") is invalid">>), "err", NoUp)
    ELSE IF up.err THEN Outcome(StatusInternalServerError, UpstreamError, "err", up)
    ELSE Outcome(StatusOK, <<"items">> \o up.items, "ok", up)

\* the save a handler's outcome calls
SaveFor(cacheConf, st, at, request, out, fail) ==
    CASE out.save = "ok" -> saveOKCache(cacheConf, st, at, request, out.resp, fail)
      [] out.save = "err" ->
            saveErrCache(cacheConf, st, at, request, out.status, out.resp, fail)
      [] OTHER -> NoSave(st)

\* (a hit that goes on to the handler)
CacheNoAbort(cacheConf, st, request, fail) ==
    LET next(get) == [kind |-> "next", status |-> 0, body |-> <<>>, get |-> get]
        k == GetCacheKey(AppName, URLString(request))
    IN IF Lookup(cacheConf.DisabledAPIs, URLPath(request), FALSE) THEN next("skipped")
       ELSE IF fail THEN next("error")
       ELSE IF k.key \notin DOMAIN st THEN next("nil")
       ELSE IF UnmarshalHTTP(st[k.key].val).err THEN next("undecodable")
       ELSE next("entry")

\* middleware.Cache: "next" (run the handler), "hit" (answer from the cache)
\* or "abort" (500 on a key error), and how the Get went: "skipped", "error"
\* (fail: a transport error), "nil" (no such key), "undecodable" or "entry"
Cache(cacheConf, st, request, fail) ==
    LET next(get) == [kind |-> "next", status |-> 0, body |-> <<>>, get |-> get]
        k == GetCacheKey(AppName, URLString(request))
    IN IF Lookup(cacheConf.DisabledAPIs, URLPath(request), FALSE) THEN next("skipped")
       ELSE IF k.err
       THEN [kind |-> "abort", status |-> StatusInternalServerError,
             body |-> Marshal(ErrorResp(<<"Fail to create cache key">>)), get |-> "skipped"]
       ELSE IF fail THEN next("error")
       ELSE IF k.key \notin DOMAIN st THEN next("nil")
       ELSE LET c == UnmarshalHTTP(st[k.key].val)
            IN IF c.err THEN next("undecodable")
               ELSE [kind |-> "hit", status |-> c.StatusCode, body |-> c.Response,
                     get |-> "entry"]

\* ------------------------------------------------------- allow-list refresh
\* time.Since(last) at time t
Since(last, t) == IF last.isZero THEN MaxDuration ELSE t - last.sec

\* (the cooldown consulted before the re-check)
RefreshDecisionCooldownFirst(ids, last, t, playlistID) ==
    IF Since(last, t) < refreshCooldown THEN "cooldown"
    ELSE IF EffectiveIn(ids, playlistID) THEN "hit"
    ELSE "fetch"

\* (a refresh that never looks at the cooldown)
RefreshDecisionNoCooldown(ids, last, t, playlistID) ==
    IF EffectiveIn(ids, playlistID) THEN "hit" ELSE "fetch"

\* refreshAndValidatePlaylist under the lock, up to the fetch: "hit" (return
\* true), "cooldown" (return false) or "fetch"
RefreshDecision(ids, last, t, playlistID) ==
    IF EffectiveIn(ids, playlistID) THEN "hit"
    ELSE IF Since(last, t) < refreshCooldown THEN "cooldown"
    ELSE "fetch"

\* (a failed fetch that leaves the timestamp alone)
AfterFetchNoStamp(ids, last, f, t, playlistID) ==
    IF f.err THEN [ids |-> ids, lastFetch |-> last, ret |-> FALSE]
    ELSE [ids |-> f.ids, lastFetch |-> TimeAt(t), ret |-> EffectiveIn(f.ids, playlistID)]

\* (the set assigned before the error is looked at)
AfterFetchDropsSet(ids, last, f, t, playlistID) ==
    IF f.err THEN [ids |-> f.ids, lastFetch |-> TimeAt(t), ret |-> FALSE]
    ELSE [ids |-> f.ids, lastFetch |-> TimeAt(t), ret |-> EffectiveIn(f.ids, playlistID)]

\* (the fetched ids merged into the set)
AfterFetchMerge(ids, last, f, t, playlistID) ==
    LET merged == [p \in DOMAIN ids \cup DOMAIN f.ids |->
                      IF p \in DOMAIN f.ids THEN f.ids[p] ELSE ids[p]]
    IN IF f.err THEN [ids |-> ids, lastFetch |-> TimeAt(t), ret |-> FALSE]
       ELSE [ids |-> merged, lastFetch |-> TimeAt(t), ret |-> EffectiveIn(merged, playlistID)]

\* refreshAndValidatePlaylist from the fetch's return on: the new set, the
\* new timestamp and the result (last: the timestamp before)
AfterFetch(ids, last, f, t, playlistID) ==
    IF f.err THEN [ids |-> ids, lastFetch |-> TimeAt(t), ret |-> FALSE]
    ELSE [ids |-> f.ids, lastFetch |-> TimeAt(t), ret |-> EffectiveIn(f.ids, playlistID)]

\* (the lock given up before the fetch)
HolderReleased(r) == 0

\* api.mu.Lock(); defer api.mu.Unlock(): who holds the exclusive lock while
\* r's fetch is in flight
HolderDuringFetch(r) == r

\* (a Lock that goes through while readers hold the lock)
CanLockOverReaders(writer, readers) == writer = 0

\* RWMutex: RLock goes through when no writer holds the lock or has announced
\* itself inside Lock, and parks the caller otherwise; Lock lets one writer at
\* a time announce itself, and is granted when nobody holds the lock
CanRLock(writer, waiting) == writer = 0 /\ waiting = {}
CanAnnounce(writer, waiting) == writer = 0 /\ waiting = {}
CanLock(writer, readers) == writer = 0 /\ readers = {}

\* --------------------------------------------------------------- scenarios
\* a run: the configuration the process starts with, and the requests its
\* clients send
Scenario(c, w) == [cfg |-> c, workload |-> w]

Scenarios ==
    { Scenario(ConfPlain,
               {PlaylistReq("P1"), PlaylistReq("P2"),
                Request(V3Dir, "playlistItems", NoQuery, NoHeader)}),
      Scenario(ConfPlain,
               {SearchReq("C1"), SearchReq("C2"), SearchReq("C3"),
                Request(ApiDir, "search", Query(TRUE, "snippet", "C1", "", ""), NoHeader),
                VideosReq("v1", NoHeader), VideosReq("", NoHeader),
                Request(V3Dir, "videos", Query(TRUE, "snippet", "", "", "v1"), NoHeader)}),
      Scenario(ConfCached, {SearchReq("C1"), SearchReq("C2"), PlaylistReq("P1")}),
      Scenario(ConfCached,
               {VideosReq("v1", Header(<<"9", "0">>)), VideosReq("", Header(<<"0">>)),
                PlaylistReq("P2")}),
      Scenario(ConfNoProvider, {SearchReq("C1")}) }

\* ------------------------------------------------------------------- state
VARIABLES
    phase,        \* "boot", "seeded" (serveMain past the seed fetch), "serving", "exited"
    cfg,          \* the configuration loaded at start
    workload,     \* the requests the clients send
    now,          \* the clock
    playlistIDs,  \* api.Whitelist.PlaylistIDs
    lastFetch,    \* api.lastFetch
    mu,           \* api.mu: the exclusive holder (0: none) and the shared holders
    pc,           \* where each request's goroutine is
    req,          \* the request each goroutine serves
    valid,        \* what ValidatePlaylistIDs returned to it
    last,         \* what the latest step did to a request, if it passed a checkpoint:
                  \* the entry one ("next": on to the handler, "cache": answered from
                  \* the cache) or the handler's exit ("handler"), with the response
                  \* sent, the Get's result and the relay's reply
    store,        \* the cache store: key -> value and expiry
    arrivals,     \* requests accepted so far
    fetchLog,     \* the latest calls of cms.FetchPlaylistIDs: when, and by whom
    writes        \* per key in the store, the SetNX calls that reached the store

vars ==
    <<phase, cfg, workload, now, playlistIDs, lastFetch, mu, pc, req, valid, last, store,
      arrivals, fetchLog, writes>>

\* (save: the save the handler called before responding, "ok", "err" or "none")
Event(request, from, status, body, get, up, save) ==
    [req |-> request, from |-> from, status |-> status, body |-> body, get |-> get,
     up |-> up, save |-> save]

NoResp == Event(NoRequest, "none", 0, <<>>, "", NoUp, "none")

\* what ValidatePlaylistIDs returned, on which path ("hit", "recheck",
\* "cooldown", "failed", "fetched"), and the set a successful fetch returned
Verdict(ret, via, got) == [ret |-> ret, via |-> via, got |-> got]

NoVerdict == Verdict(FALSE, "", EmptyMap)

\* fetchLog keeps the two latest calls: two calls closer than the cooldown
\* are two consecutive ones
Logged(log, call) ==
    IF Len(log) < 2 THEN Append(log, call) ELSE <<log[2], call>>

\* writes after the SetNX calls of one save: the value of the first call for
\* the key, how many calls stored a value, how many calls there were, and the
\* status the handler that made the first call responded with
Written(w, st, calls, status) ==
    [k \in DOMAIN st |->
        LET mine == SelectSeq(calls, LAMBDA c : c.key = k)
            old == IF k \in DOMAIN w THEN w[k]
                   ELSE [first |-> st[k].val, applied |-> 0, calls |-> 0, status |-> 0]
        IN IF mine = <<>> THEN old
           ELSE [first |-> IF old.calls = 0 THEN mine[1].val ELSE old.first,
                 applied |-> old.applied + (IF mine[1].applied THEN 1 ELSE 0),
                 calls |-> old.calls + 1,
                 status |-> IF old.calls = 0 THEN status ELSE old.status]]

\* the goroutine that has announced itself inside Lock and waits for the
\* readers to leave
Waiting == { r \in Reqs : pc[r] = "lockwait" }

\* Unlock: the writer is gone and the goroutines parked inside RLock behind
\* it are let in as readers
Unlock(m) == [writer |-> 0, readers |-> m.readers \cup { q \in Reqs : pc[q] = "rblocked" }]
Woken(p) == [q \in Reqs |-> IF p[q] = "rblocked" THEN "rlocked" ELSE p[q]]

Init ==
    /\ phase = "boot"
    /\ \E sc \in Scenarios : cfg = sc.cfg /\ workload = sc.workload
    /\ now = 0
    /\ playlistIDs = cfg.Whitelists.PlaylistIDs
    /\ lastFetch = ZeroTime
    /\ mu = [writer |-> 0, readers |-> {}]
    /\ pc = [r \in Reqs |-> "idle"]
    /\ req = [r \in Reqs |-> NoRequest]
    /\ valid = [r \in Reqs |-> NoVerdict]
    /\ last = NoResp
    /\ store = EmptyMap
    /\ arrivals = 0
    /\ fetchLog = <<>>
    /\ writes = EmptyMap

\* ----------------------------------------------------------------- startup
\* (the seed fetch's error and the empty result passed over)
SeedUnchecked ==
    /\ phase = "boot"
    /\ \E reply \in CmsReplySet :
         LET f == FetchPlaylistIDs(reply)
         IN /\ phase' = "seeded"
            /\ playlistIDs' = IF f.err THEN playlistIDs ELSE f.ids
    /\ fetchLog' = Logged(fetchLog, [at |-> now, by |-> "seed"])
    /\ last' = NoResp
    /\ UNCHANGED <<cfg, workload, now, lastFetch, mu, pc, req, valid, store, arrivals, writes>>

\* serveMain: the seed fetch of the playlist ids
SeedPlaylists ==
    /\ phase = "boot"
    /\ \E reply \in CmsReplySet :
         LET f == FetchPlaylistIDs(reply)
         IN IF f.err \/ Cardinality(DOMAIN f.ids) = 0
            THEN phase' = "exited" /\ UNCHANGED playlistIDs
            ELSE phase' = "seeded" /\ playlistIDs' = f.ids
    /\ fetchLog' = Logged(fetchLog, [at |-> now, by |-> "seed"])
    /\ last' = NoResp
    /\ UNCHANGED <<cfg, workload, now, lastFetch, mu, pc, req, valid, store, arrivals, writes>>

\* server.New's verdict: an error when the store cannot be opened or caching
\* is enabled without one
NewFails(c, redisErr) == (c.HasRedis /\ redisErr) \/ (c.Cache.IsEnabled /\ ~c.HasRedis)

\* (a server built with the seed fetch's time as its last fetch)
StartServerStamped ==
    /\ phase = "seeded"
    /\ \E redisErr \in BOOLEAN, relayErr \in BOOLEAN :
         phase' = IF NewFails(cfg, redisErr) \/ relayErr THEN "exited" ELSE "serving"
    /\ lastFetch' = TimeAt(fetchLog[Len(fetchLog)].at)
    /\ last' = NoResp
    /\ UNCHANGED <<cfg, workload, now, playlistIDs, mu, pc, req, valid, store, arrivals,
                   fetchLog, writes>>

\* serveMain: server.New, relay.New, route.Set, server.Run
StartServer ==
    /\ phase = "seeded"
    /\ \E redisErr \in BOOLEAN, relayErr \in BOOLEAN :
         phase' = IF NewFails(cfg, redisErr) \/ relayErr THEN "exited" ELSE "serving"
    /\ lastFetch' = ZeroTime
    /\ last' = NoResp
    /\ UNCHANGED <<cfg, workload, now, playlistIDs, mu, pc, req, valid, store, arrivals,
                   fetchLog, writes>>

\* time passes; the store drops what has expired
Tick ==
    /\ phase \in {"seeded", "serving"}
    /\ now + TickStep <= MaxTime
    /\ now' = now + TickStep
    /\ store' = [k \in Unexpired(store, now') |-> store[k]]
    /\ writes' = [k \in Unexpired(store, now') |-> writes[k]]
    /\ last' = NoResp
    /\ UNCHANGED <<phase, cfg, workload, playlistIDs, lastFetch, mu, pc, req, valid, arrivals, fetchLog>>

\* ---------------------------------------------------------------- requests
Free == { r \in Reqs : pc[r] = "idle" }

\* (a failed cache write turned into the response)
FinishSurfacesWriteError(r, out, fail) ==
    LET sv == SaveFor(cfg.Cache, store, now, req[r], out, fail)
    IN /\ store' = sv.store
       /\ writes' = Written(writes, sv.store, sv.calls, out.status)
       /\ last' = IF fail /\ cfg.Cache.IsEnabled
                  THEN Event(req[r], "handler", StatusInternalServerError,
                             Marshal(ErrorResp(<<"cache write failed">>)), "", out.up, out.save)
                  ELSE Event(req[r], "handler", out.status, Marshal(out.resp), "", out.up,
                             out.save)
       /\ pc' = [pc EXCEPT ![r] = "idle"]
       /\ req' = [req EXCEPT ![r] = NoRequest]
       /\ valid' = [valid EXCEPT ![r] = NoVerdict]

\* the handler is done: save, then respond
Finish(r, out, fail) ==
    LET sv == SaveFor(cfg.Cache, store, now, req[r], out, fail)
    IN /\ store' = sv.store
       /\ writes' = Written(writes, sv.store, sv.calls, out.status)
       /\ last' = Event(req[r], "handler", out.status, Marshal(out.resp), "", out.up, out.save)
       /\ pc' = [pc EXCEPT ![r] = "idle"]
       /\ req' = [req EXCEPT ![r] = NoRequest]
       /\ valid' = [valid EXCEPT ![r] = NoVerdict]

\* a request comes in: the rewrite, then (caching enabled) middleware.Cache
Arrive(r) ==
    /\ phase = "serving"
    /\ Free # {}
    /\ r = Least(Free)
    /\ arrivals < MaxArrivals
    /\ arrivals' = arrivals + 1
    /\ \E q \in workload, fail \in BOOLEAN :
         LET request == Rewrite(q)
             mw == Cache(cfg.Cache, store, request, fail)
         IN IF cfg.Cache.IsEnabled /\ mw.kind # "next"
            THEN /\ last' = Event(request, "cache", mw.status, mw.body, mw.get, NoUp, "none")
                 /\ UNCHANGED <<pc, req>>
            ELSE /\ pc' = [pc EXCEPT ![r] = "handler"]
                 /\ req' = [req EXCEPT ![r] = request]
                 /\ last' = Event(request, "next", 0, <<>>,
                                  IF cfg.Cache.IsEnabled THEN mw.get ELSE "skipped", NoUp,
                                  "none")
    /\ UNCHANGED <<phase, cfg, workload, now, playlistIDs, lastFetch, mu, valid, store, fetchLog,
                   writes>>

\* GET /youtube/v3/search
Search(r) ==
    /\ pc[r] = "handler"
    /\ req[r].name = "search"
    /\ \E up \in UpstreamSet(req[r].name), fail \in BOOLEAN :
         Finish(r, SearchHandler(cfg.Whitelists.ChannelIDs, req[r].q, up), fail)
    /\ UNCHANGED <<phase, cfg, workload, now, playlistIDs, lastFetch, mu, arrivals, fetchLog>>

\* GET /youtube/v3/videos
Videos(r) ==
    /\ pc[r] = "handler"
    /\ req[r].name = "videos"
    /\ \E up \in UpstreamSet(req[r].name), fail \in BOOLEAN :
         Finish(r, VideosHandler(cfg.Whitelists.ChannelIDs, req[r].q, up), fail)
    /\ UNCHANGED <<phase, cfg, workload, now, playlistIDs, lastFetch, mu, arrivals, fetchLog>>

\* GET /youtube/v3/playlistItems, rejected before the allow-list check
PlaylistItemsReject(r) ==
    /\ pc[r] = "handler"
    /\ req[r].name = "playlistItems"
    /\ PlaylistItemsRejects(req[r].q)
    /\ \E fail \in BOOLEAN : Finish(r, PlaylistItemsEarly(req[r].q), fail)
    /\ UNCHANGED <<phase, cfg, workload, now, playlistIDs, lastFetch, mu, arrivals, fetchLog>>

\* ValidatePlaylistIDs: api.mu.RLock() is called; it returns at once, or
\* parks the goroutine behind the writer that holds or has asked for the lock
RLock(r) ==
    /\ pc[r] = "handler"
    /\ req[r].name = "playlistItems"
    /\ ~PlaylistItemsRejects(req[r].q)
    /\ IF CanRLock(mu.writer, Waiting)
       THEN /\ mu' = [mu EXCEPT !.readers = @ \cup {r}]
            /\ pc' = [pc EXCEPT ![r] = "rlocked"]
       ELSE /\ pc' = [pc EXCEPT ![r] = "rblocked"]
            /\ UNCHANGED mu
    /\ last' = NoResp
    /\ UNCHANGED <<phase, cfg, workload, now, playlistIDs, lastFetch, req, valid, store,
                   arrivals, fetchLog, writes>>

\* ValidatePlaylistIDs: the lookup, RUnlock, and either return true or go on
\* to refreshAndValidatePlaylist
ReadCheck(r) ==
    /\ pc[r] = "rlocked"
    /\ mu' = [mu EXCEPT !.readers = @ \ {r}]
    /\ IF EffectiveIn(playlistIDs, req[r].q.playlistId)
       THEN /\ valid' = [valid EXCEPT ![r] = Verdict(TRUE, "hit", EmptyMap)]
            /\ pc' = [pc EXCEPT ![r] = "validated"]
       ELSE /\ pc' = [pc EXCEPT ![r] = "missed"]
            /\ UNCHANGED valid
    /\ last' = NoResp
    /\ UNCHANGED <<phase, cfg, workload, now, playlistIDs, lastFetch, req, store, arrivals,
                   fetchLog, writes>>

\* refreshAndValidatePlaylist: api.mu.Lock() is called and the goroutine is the
\* writer that waits for the readers to leave; from here on RLock parks
Lock(r) ==
    /\ pc[r] = "missed"
    /\ CanAnnounce(mu.writer, Waiting)
    /\ pc' = [pc EXCEPT ![r] = "lockwait"]
    /\ last' = NoResp
    /\ UNCHANGED <<phase, cfg, workload, now, playlistIDs, lastFetch, mu, req, valid, store,
                   arrivals, fetchLog, writes>>

\* refreshAndValidatePlaylist: the lock is acquired; re-check, cooldown, and
\* either return (the deferred Unlock runs) or call cms.FetchPlaylistIDs
Refresh(r) ==
    /\ pc[r] = "lockwait"
    /\ CanLock(mu.writer, mu.readers)
    /\ LET d == RefreshDecision(playlistIDs, lastFetch, now, req[r].q.playlistId)
       IN IF d = "fetch"
          THEN /\ mu' = [mu EXCEPT !.writer = HolderDuringFetch(r)]
               /\ pc' = [pc EXCEPT ![r] = "fetching"]
               /\ fetchLog' = Logged(fetchLog, [at |-> now, by |-> "refresh"])
               /\ UNCHANGED valid
          ELSE /\ valid' = [valid EXCEPT ![r] =
                                IF d = "hit" THEN Verdict(TRUE, "recheck", EmptyMap)
                                ELSE Verdict(FALSE, "cooldown", EmptyMap)]
               /\ mu' = Unlock(mu)
               /\ pc' = [Woken(pc) EXCEPT ![r] = "validated"]
               /\ UNCHANGED fetchLog
    /\ last' = NoResp
    /\ UNCHANGED <<phase, cfg, workload, now, playlistIDs, lastFetch, req, store, arrivals,
                   writes>>

\* (a return after a failed fetch that leaves the lock held)
FetchReturnKeepsLock(r) ==
    /\ pc[r] = "fetching"
    /\ \E reply \in CmsReplySet :
         LET f == FetchPlaylistIDs(reply)
             a == AfterFetch(playlistIDs, lastFetch, f, now, req[r].q.playlistId)
         IN /\ playlistIDs' = a.ids
            /\ lastFetch' = a.lastFetch
            /\ valid' = [valid EXCEPT ![r] =
                            IF f.err THEN Verdict(a.ret, "failed", EmptyMap)
                            ELSE Verdict(a.ret, "fetched", f.ids)]
            /\ mu' = IF f.err \/ mu.writer # r THEN mu ELSE Unlock(mu)
            /\ pc' = [(IF f.err \/ mu.writer # r THEN pc ELSE Woken(pc))
                        EXCEPT ![r] = "validated"]
    /\ last' = NoResp
    /\ UNCHANGED <<phase, cfg, workload, now, req, store, arrivals, fetchLog, writes>>

\* refreshAndValidatePlaylist: the fetch returns; the deferred Unlock runs
FetchReturn(r) ==
    /\ pc[r] = "fetching"
    /\ \E reply \in CmsReplySet :
         LET f == FetchPlaylistIDs(reply)
             a == AfterFetch(playlistIDs, lastFetch, f, now, req[r].q.playlistId)
         IN /\ playlistIDs' = a.ids
            /\ lastFetch' = a.lastFetch
            /\ valid' = [valid EXCEPT ![r] =
                            IF f.err THEN Verdict(a.ret, "failed", EmptyMap)
                            ELSE Verdict(a.ret, "fetched", f.ids)]
    /\ mu' = IF mu.writer = r THEN Unlock(mu) ELSE mu
    /\ pc' = [(IF mu.writer = r THEN Woken(pc) ELSE pc) EXCEPT ![r] = "validated"]
    /\ last' = NoResp
    /\ UNCHANGED <<phase, cfg, workload, now, req, store, arrivals, fetchLog, writes>>

\* GET /youtube/v3/playlistItems from the allow-list verdict on
PlaylistItems(r) ==
    /\ pc[r] = "validated"
    /\ \E up \in UpstreamSet(req[r].name), fail \in BOOLEAN :
         Finish(r, PlaylistItemsHandler(valid[r].ret, req[r].q, up), fail)
    /\ UNCHANGED <<phase, cfg, workload, now, playlistIDs, lastFetch, mu, arrivals, fetchLog>>

Next ==
    \/ SeedPlaylists
    \/ StartServer
    \/ Tick
    \/ \E r \in Reqs : Arrive(r)
    \/ \E r \in Reqs : Search(r)
    \/ \E r \in Reqs : Videos(r)
    \/ \E r \in Reqs : PlaylistItemsReject(r)
    \/ \E r \in Reqs : RLock(r)
    \/ \E r \in Reqs : ReadCheck(r)
    \/ \E r \in Reqs : Lock(r)
    \/ \E r \in Reqs : Refresh(r)
    \/ \E r \in Reqs : FetchReturn(r)
    \/ \E r \in Reqs : PlaylistItems(r)

Spec == Init /\ [][Next]_vars

\* ------------------------------------------- the server as server.New builds it
\* server.New(c) and route.Set for a configuration whose playlist map is used
\* as configured (an entry of it may be marked ineffective)
ConfListed ==
    Conf(CacheConf(FALSE, EmptyMap, 0, 0, [x \in {} |-> 0]), FALSE,
         [p \in {"P1", "P2"} |-> p = "P2"])

ApiScenarios ==
    { Scenario(ConfListed,
               {PlaylistReq("P1"), PlaylistReq("P2"),
                Request(V3Dir, "playlistItems", NoQuery, NoHeader),
                SearchReq("C2"), SearchReq("C3"), VideosReq("v1", NoHeader)}) }

InitApi ==
    /\ phase = "serving"
    /\ \E sc \in ApiScenarios : cfg = sc.cfg /\ workload = sc.workload
    /\ now = 0
    /\ playlistIDs = cfg.Whitelists.PlaylistIDs
    /\ lastFetch = ZeroTime
    /\ mu = [writer |-> 0, readers |-> {}]
    /\ pc = [r \in Reqs |-> "idle"]
    /\ req = [r \in Reqs |-> NoRequest]
    /\ valid = [r \in Reqs |-> NoVerdict]
    /\ last = NoResp
    /\ store = EmptyMap
    /\ arrivals = 0
    /\ fetchLog = <<>>
    /\ writes = EmptyMap

NextApi ==
    \/ Tick
    \/ \E r \in Reqs : Arrive(r)
    \/ \E r \in Reqs : Search(r)
    \/ \E r \in Reqs : Videos(r)
    \/ \E r \in Reqs : PlaylistItemsReject(r)
    \/ \E r \in Reqs : RLock(r)
    \/ \E r \in Reqs : ReadCheck(r)
    \/ \E r \in Reqs : Lock(r)
    \/ \E r \in Reqs : Refresh(r)
    \/ \E r \in Reqs : FetchReturn(r)
    \/ \E r \in Reqs : PlaylistItems(r)

SpecApi == InitApi /\ [][NextApi]_vars

\* ------------------------------------------------------ what the claims read
\* the requests whose external fetch is in flight
InFlight == { r \in Reqs : pc[r] = "fetching" }

\* the playlist id request r asks about
IdOf(r) == req[r].q.playlistId

\* calls of cms.FetchPlaylistIDs in log, pairwise at least a cooldown apart
CallsApart(log) ==
    \A i, j \in 1..Len(log) : i < j => log[j].at - log[i].at >= refreshCooldown

\* the calls refreshAndValidatePlaylist made
Refreshes(log) == SelectSeq(log, LAMBDA c : c.by = "refresh")

\* a fetch attempt by a refresh lies less than a cooldown back
WithinCooldown == ~lastFetch.isZero /\ now - lastFetch.sec < refreshCooldown

\* ------------------------------------------------------------------- C1
\* C1 (as stated): any two external playlist fetches, the seed fetch of
\* serveMain included, are at least one cooldown apart.
C1_AllFetchesApart == CallsApart(fetchLog)

\* C1 (amended): any two external playlist fetches made by playlist lookups
\* (refreshAndValidatePlaylist) are at least one cooldown apart, however the
\* lookups miss and interleave; the seed fetch at startup is not counted.
C1_RefreshesApart == CallsApart(Refreshes(fetchLog))

\* two refreshes were made, the second after a full cooldown
C1_TwoRefreshes ==
    /\ Len(Refreshes(fetchLog)) = 2
    /\ fetchLog[2].at > fetchLog[1].at

\* ------------------------------------------------------------------- C2
\* C2: while a refresh's external fetch is in flight its request holds the
\* exclusive lock (no reader, no other writer), so at most one fetch is in
\* flight; a lookup that waited for the lock starts a fetch of its own only
\* when none is in flight and a full cooldown has passed since the last
\* attempt, and the other lookups that missed stay outside the lock
\* meanwhile, so the misses that arrived together cause a single fetch.
C2_SingleFetchInFlight ==
    /\ [](/\ Cardinality(InFlight) <= 1
          /\ \A r \in InFlight : mu.writer = r /\ mu.readers = {})
    /\ [][\A r \in Reqs :
            (pc[r] = "lockwait" /\ pc'[r] = "fetching")
               => /\ InFlight = {}
                  /\ Since(lastFetch, now) >= refreshCooldown
                  /\ Waiting = {r}
                  /\ \A w \in Reqs : pc[w] = "missed" => pc'[w] = "missed"]_vars
    /\ [][\A r \in Reqs :
            (pc[r] = "lockwait" /\ pc'[r] = "validated" /\ WithinCooldown)
               => fetchLog' = fetchLog /\ InFlight' = {}]_vars

\* one lookup's fetch is in flight while another lookup that missed is kept
\* from the lock
C2_MissWaitsForFetch ==
    \E r, w \in Reqs :
        /\ r # w /\ pc[r] = "fetching" /\ pc[w] = "missed"
        /\ ~CanAnnounce(mu.writer, Waiting)

\* ------------------------------------------------------------------- C3
\* the lookup of request r is about to take the read lock for an id that is
\* present and effective
HotPath(r) ==
    /\ pc[r] = "handler"
    /\ req[r].name = "playlistItems"
    /\ ~PlaylistItemsRejects(req[r].q)
    /\ EffectiveIn(playlistIDs, IdOf(r))

\* C3: a lookup for a present-and-effective id never has to wait for an
\* external fetch: while another request's fetch is in flight, its RLock
\* returns at once, and no such lookup is parked inside RLock.
C3_HotPathNeverWaits ==
    \A r \in Reqs :
        /\ (HotPath(r) /\ InFlight # {}) => CanRLock(mu.writer, Waiting)
        /\ ~(pc[r] = "rblocked" /\ EffectiveIn(playlistIDs, IdOf(r)) /\ InFlight # {})

\* ------------------------------------------------------------------- C4
\* C4: a lookup that gets the lock for an id that is absent or ineffective,
\* less than a cooldown after the last fetch attempt of a refresh, returns
\* false, makes no external call and leaves set and timestamp as they were.
C4_CooldownRejects ==
    [][\A r \in Reqs :
         (/\ pc[r] = "lockwait" /\ pc'[r] # "lockwait"
          /\ ~EffectiveIn(playlistIDs, IdOf(r))
          /\ WithinCooldown)
            => /\ pc'[r] = "validated"
               /\ valid'[r].ret = FALSE
               /\ playlistIDs' = playlistIDs
               /\ lastFetch' = lastFetch
               /\ fetchLog' = fetchLog]_vars

\* a lookup was turned away inside the cooldown
C4_TurnedAway ==
    \E r \in Reqs :
        /\ pc[r] = "validated" /\ valid[r].via = "cooldown"
        /\ ~EffectiveIn(playlistIDs, IdOf(r))
        /\ WithinCooldown

\* ------------------------------------------------------------------- C5
\* C5: when the fetch of a refresh fails the lookup returns false, the
\* timestamp is set to the time of the attempt, the set is left as it was,
\* the lock is released, and the handler answers with its own client error
\* for the playlist id (the fetch error is not passed on).
C5_FailedFetch ==
    [][/\ \A r \in Reqs :
            (pc[r] = "fetching" /\ pc'[r] # "fetching" /\ valid'[r].via = "failed")
               => /\ pc'[r] = "validated"
                  /\ valid'[r].ret = FALSE
                  /\ lastFetch' = TimeAt(now)
                  /\ playlistIDs' = playlistIDs
                  /\ mu'.writer = 0
       /\ \A r \in Reqs :
            (pc[r] = "validated" /\ valid[r].via = "failed" /\ pc'[r] = "idle")
               => /\ last'.status = StatusBadRequest
                  /\ last'.body =
                       Marshal(ErrorResp(<<"playlistId(", IdOf(r), ") is invalid">>))]_vars

\* a refresh's fetch has failed with a non-empty set in place
C5_FetchFailed ==
    \E r \in Reqs :
        /\ pc[r] = "validated" /\ valid[r].via = "failed"
        /\ lastFetch = TimeAt(now)
        /\ DOMAIN playlistIDs # {}

\* ------------------------------------------------------------------- C6
\* C6: when the fetch of a refresh succeeds the playlist set becomes exactly
\* the fetched set: an id validates afterwards if and only if it was
\* fetched, whatever the set held before, and the refreshing lookup returns
\* whether its own id is in the fetched set.
C6_SetReplaced ==
    [][\A r \in Reqs :
         (pc[r] = "fetching" /\ pc'[r] # "fetching" /\ valid'[r].via = "fetched")
            => /\ playlistIDs' = valid'[r].got
               /\ lastFetch' = TimeAt(now)
               /\ \A p \in PlaylistIdSet :
                     EffectiveIn(playlistIDs', p) <=> p \in DOMAIN valid'[r].got
               /\ valid'[r].ret = (IdOf(r) \in DOMAIN valid'[r].got)]_vars

\* a refresh has put the looked-up id into the set and dropped an id the set
\* held before
C6_Refreshed ==
    \E r \in Reqs :
        /\ pc[r] = "validated" /\ valid[r].via = "fetched" /\ valid[r].ret
        /\ playlistIDs = valid[r].got
        /\ DOMAIN playlistIDs = {IdOf(r)}

\* ------------------------------------------------------------------- C7
\* id is in m, marked ineffective
Ineffective(m, id) == id \in DOMAIN m /\ ~m[id]

\* m without its entry for id
Without(m, id) == [k \in DOMAIN m \ {id} |-> m[k]]

\* C7: an id that is in its set but marked ineffective fares as it would if
\* the set did not hold it: the lookup under the read lock misses, the
\* refresh takes the decision (cooldown or fetch) it takes for the set
\* without the entry and returns the same result, and /search rejects the
\* channel.
C7_IneffectiveAsAbsent ==
    [][/\ \A r \in Reqs :
            (pc[r] = "rlocked" /\ pc'[r] # "rlocked" /\ Ineffective(playlistIDs, IdOf(r)))
               => pc'[r] = "missed"
       /\ \A r \in Reqs :
            (pc[r] = "lockwait" /\ pc'[r] # "lockwait" /\ Ineffective(playlistIDs, IdOf(r)))
               => LET d == RefreshDecision(Without(playlistIDs, IdOf(r)), lastFetch, now,
                                           IdOf(r))
                  IN /\ d # "hit"
                     /\ IF d = "fetch" THEN pc'[r] = "fetching"
                        ELSE /\ pc'[r] = "validated"
                             /\ valid'[r] = Verdict(FALSE, "cooldown", EmptyMap)
       /\ \A r \in Reqs :
            (pc[r] = "fetching" /\ pc'[r] # "fetching" /\ Ineffective(playlistIDs, IdOf(r)))
               => /\ valid'[r].ret =
                        (valid'[r].via = "fetched" /\ IdOf(r) \in DOMAIN valid'[r].got)
                  /\ playlistIDs' =
                        IF valid'[r].via = "fetched" THEN valid'[r].got ELSE playlistIDs
       /\ (/\ last'.from = "handler" /\ last'.req.name = "search"
           /\ ~last'.req.q.malformed /\ last'.req.q.part # ""
           /\ Ineffective(cfg.Whitelists.ChannelIDs, last'.req.q.channelId))
             => /\ last'.status = StatusBadRequest
                /\ last'.body = Marshal(ErrorResp(ChannelError(last'.req.q.channelId)))]_vars

\* a lookup for an ineffective playlist id has missed and waits for the lock,
\* and a search for an ineffective channel has just been rejected
C7_IneffectiveMissed ==
    /\ \E r \in Reqs : pc[r] = "lockwait" /\ Ineffective(playlistIDs, IdOf(r))
    /\ last.from = "handler" /\ last.req.name = "search"
    /\ Ineffective(cfg.Whitelists.ChannelIDs, last.req.q.channelId)
    /\ last.status = StatusBadRequest

\* ------------------------------------------------------------------- C8
\* the response e is a client error that carries an error value
ClientError(e) == e.status = StatusBadRequest /\ e.body[2] = "error"

\* the store after a rejected request: an entry the step added holds the
\* error value and expires after the error TTL
OnlyErrorSaved(e) ==
    \A k \in DOMAIN store' \ DOMAIN store :
        /\ store'[k].val.response = e.body
        /\ store'[k].exp = now + cfg.Cache.ErrorTTL

\* C8: a /search request whose channel id, a /playlistItems request whose
\* playlist id, or a /videos request one of whose returned videos' channel
\* ids failed the allow-list check ends in a client error; the relay's
\* result is neither returned nor saved as a success entry.
C8_RejectedNeverServed ==
    [][/\ (/\ last'.from = "handler" /\ last'.req.name = "search"
           /\ ~last'.req.q.malformed /\ last'.req.q.part # ""
           /\ ~EffectiveIn(cfg.Whitelists.ChannelIDs, last'.req.q.channelId))
             => ClientError(last') /\ OnlyErrorSaved(last')
       /\ (/\ last'.from = "handler" /\ last'.req.name = "videos"
           /\ ~last'.up.err
           /\ \E i \in 1..Len(last'.up.items) :
                 ~EffectiveIn(cfg.Whitelists.ChannelIDs, last'.up.items[i]))
             => ClientError(last') /\ OnlyErrorSaved(last')
       /\ \A r \in Reqs :
            (pc[r] = "validated" /\ ~valid[r].ret /\ pc'[r] = "idle")
               => /\ last'.from = "handler" /\ last'.req = req[r]
                  /\ ClientError(last') /\ OnlyErrorSaved(last')]_vars

\* a request for a playlist id that failed the allow-list lookup was answered with the
\* client error, which is now in the store
C8_RejectedPlaylist ==
    /\ last.from = "handler" /\ last.req.name = "playlistItems"
    /\ last.status = StatusBadRequest
    /\ last.body = Marshal(ErrorResp(<<"playlistId(", last.req.q.playlistId, ") is invalid">>))
    /\ \E k \in DOMAIN store : store[k].val.response = last.body

\* ------------------------------------------------------------------- C9
\* C9: of the exit-checkpoint writes for a key that is in the store exactly
\* one took effect, the first; the entry is that first write's value, a
\* cache hit answers with it, and no step changes or removes the entry
\* before it expires.
C9_FirstWriterWins ==
    /\ [](\A k \in DOMAIN store :
            writes[k].applied = 1 /\ store[k].val = writes[k].first)
    /\ [][/\ \A k \in DOMAIN store :
               IF k \in DOMAIN store' THEN store'[k] = store[k]
               ELSE now' > now /\ store[k].exp >= 0 /\ store[k].exp <= now'
          /\ last'.from = "cache"
               => LET key == GetCacheKey(AppName, URLString(last'.req)).key
                  IN /\ key \in DOMAIN store
                     /\ MarshalHTTP(last'.status, last'.body) = writes[key].first]_vars

\* a second write for a key came after the first had taken effect
C9_SecondWriteLost ==
    \E k \in DOMAIN store : writes[k].calls >= 2 /\ writes[k].applied = 1

\* ------------------------------------------------------------------ C10
\* the key middleware.Cache reads for the request
KeyOf(request) == GetCacheKey(AppName, URLString(request)).key

\* C10: with caching enabled and the path not disabled, a request whose
\* cache read returns a decodable entry is answered with the stored status
\* code and body, and nothing of the handler runs: no request is handed on,
\* and the allow-list, the store and the fetch log stay as they were.
C10_HitBypassesHandler ==
    [][(/\ last'.from \in {"cache", "next"}
        /\ cfg.Cache.IsEnabled
        /\ ~Lookup(cfg.Cache.DisabledAPIs, URLPath(last'.req), FALSE)
        /\ ~GetCacheKey(AppName, URLString(last'.req)).err
        /\ KeyOf(last'.req) \in DOMAIN store
        /\ ~UnmarshalHTTP(store[KeyOf(last'.req)].val).err
        /\ last'.get # "error")
          => /\ last'.from = "cache"
             /\ last'.status = UnmarshalHTTP(store[KeyOf(last'.req)].val).StatusCode
             /\ last'.body = UnmarshalHTTP(store[KeyOf(last'.req)].val).Response
             /\ UNCHANGED <<pc, req, valid, store, writes, playlistIDs, lastFetch, mu,
                            fetchLog>>]_vars

\* a request has just been answered from the cache
C10_AnsweredFromCache ==
    /\ last.from = "cache" /\ last.get = "entry"
    /\ KeyOf(last.req) \in DOMAIN store
    /\ \A r \in Reqs : pc[r] = "idle"

\* ------------------------------------------------------------------ C11
\* C11: a cache hit answers with the status code and the body of the
\* response whose exit-checkpoint write stored the entry, for an error
\* response as for a success.
C11_ReplayedAsResponded ==
    [][(last'.from = "cache" /\ last'.get = "entry")
         => /\ last'.status = writes[KeyOf(last'.req)].status
            /\ last'.body = UnmarshalHTTP(writes[KeyOf(last'.req)].first).Response]_vars

\* ----------------------------------------- the cache layer's configurations
\* a serving process whose cache configuration disables a path or overrides
\* its TTL, and requests that reach each rule of the TTL resolution
SearchPath == <<V3Dir, "search">>
VideosPath == <<V3Dir, "videos">>

\* search is in disabledApis
ConfDisabled ==
    Conf(CacheConf(TRUE, [p \in {SearchPath} |-> TRUE], 60, 30, [x \in {} |-> 0]), TRUE,
         EmptyMap)

\* videos has an entry in overwriteTtl
ConfOverwrite ==
    Conf(CacheConf(TRUE, EmptyMap, 60, 30, [p \in {VideosPath} |-> 90]), TRUE, EmptyMap)

\* Cache-Set-TTL present with no value at all
HeaderNoValue == [present |-> TRUE, values |-> <<>>]

WithHeader(request, hdr) == [request EXCEPT !.hdr = hdr]

CacheScenarios ==
    { Scenario(ConfDisabled,
               {SearchReq("C1"), SearchReq("C2"),
                Request(V3Dir, "search", NoQuery, NoHeader),
                WithHeader(SearchReq("C1"), Header(<<"4", "5">>))}),
      Scenario(ConfOverwrite,
               {VideosReq("v1", NoHeader),
                Request(V3Dir, "videos", NoQuery, NoHeader),
                VideosReq("v1", Header(<<"4", "5">>)),
                VideosReq("v1", Header(<<"a", "b">>)),
                VideosReq("v1", Header(<<"-", "5">>))}),
      Scenario(ConfCached,
               {WithHeader(SearchReq("C1"), Header(<<"0">>)),
                WithHeader(SearchReq("C2"), Header(<<>>)),
                WithHeader(SearchReq("C1"), HeaderNoValue),
                WithHeader(SearchReq("C2"), Header(<<"4", "5">>))}),
      Scenario(ConfCached,
               {SearchReq(BadToken), SearchReq("C1"),
                Request(V3Dir, "videos", Query(TRUE, "snippet", "", "", "v1"), NoHeader),
                VideosReq("", NoHeader)}),
      Scenario(ConfCached,
               {SearchReq("C1"),
                Request(ApiDir, "search", Query(FALSE, "snippet", "C1", "", ""), NoHeader),
                Request(ApiDir, "search", Query(FALSE, "snippet", "C2", "", ""), NoHeader),
                Request(ApiDir, "videos", Query(FALSE, "snippet", "", "", "v1"), NoHeader)}) }

\* serveMain has seeded the playlist ids and the server is running
InitCache ==
    /\ phase = "serving"
    /\ \E sc \in CacheScenarios : cfg = sc.cfg /\ workload = sc.workload
    /\ now = 0
    /\ playlistIDs = [p \in {"P1"} |-> TRUE]
    /\ lastFetch = ZeroTime
    /\ mu = [writer |-> 0, readers |-> {}]
    /\ pc = [r \in Reqs |-> "idle"]
    /\ req = [r \in Reqs |-> NoRequest]
    /\ valid = [r \in Reqs |-> NoVerdict]
    /\ last = NoResp
    /\ store = EmptyMap
    /\ arrivals = 0
    /\ fetchLog = <<[at |-> 0, by |-> "seed"]>>
    /\ writes = EmptyMap

NextCache ==
    \/ Tick
    \/ \E r \in Reqs : Arrive(r)
    \/ \E r \in Reqs : Search(r)
    \/ \E r \in Reqs : Videos(r)

SpecCache == InitCache /\ [][NextCache]_vars

\* ------------------------------------------------------------------ C12
\* C12: with caching enabled, an arrival whose entry checkpoint does not
\* obtain a decodable entry (key derivation error, transport error on Get,
\* no such key, undecodable value) is handed to its handler; the cache layer
\* writes no response of its own.
C12_EntryFailuresAbsorbed ==
    [][(/\ last'.from \in {"cache", "next"}
        /\ cfg.Cache.IsEnabled
        /\ last'.get # "entry")
          => /\ last'.from = "next"
             /\ \E r \in Reqs :
                   pc[r] = "idle" /\ pc'[r] = "handler" /\ req'[r] = last'.req]_vars

\* ------------------------------------------------------------------ C13
\* the outcome the handler of request rq computes from the allow-list
\* verdict ok (for /playlistItems) and the relay's reply up
HandlerOutcome(rq, ok, up) ==
    CASE rq.name = "search" -> SearchHandler(cfg.Whitelists.ChannelIDs, rq.q, up)
      [] rq.name = "videos" -> VideosHandler(cfg.Whitelists.ChannelIDs, rq.q, up)
      [] OTHER -> IF PlaylistItemsRejects(rq.q) THEN PlaylistItemsEarly(rq.q)
                  ELSE PlaylistItemsHandler(ok, rq.q, up)

\* C13: the status code and body a handler responds with are those of its
\* outcome, the same whether the exit-checkpoint write stored the entry,
\* found the key present or failed.
C13_WriteNeverChangesResponse ==
    [][\A r \in Reqs :
         (pc[r] \in {"handler", "validated"} /\ pc'[r] = "idle")
            => LET out == HandlerOutcome(req[r], valid[r].ret, last'.up)
               IN /\ last'.from = "handler" /\ last'.req = req[r]
                  /\ last'.status = out.status
                  /\ last'.body = Marshal(out.resp)]_vars

\* a success response was given although its cache write stored nothing
C13_RespondedWithoutEntry ==
    /\ last.from = "handler" /\ last.status = StatusOK /\ last.save = "ok"
    /\ cfg.Cache.IsEnabled
    /\ ~getResponseCacheTTL(cfg.Cache, last.req).isDisabled
    /\ KeyOf(last.req) \notin DOMAIN store

\* ------------------------------------------------------------------ C14
\* the path of the request is in disabledApis
PathDisabled(request) == Lookup(cfg.Cache.DisabledAPIs, URLPath(request), FALSE)

\* C14: a request to a path listed in disabledApis, whatever its query
\* string and header, is handed to its handler without a cache read, and
\* its handler's exit writes nothing to the store.
C14_DisabledPathUncached ==
    [][/\ (last'.from \in {"cache", "next"} /\ PathDisabled(last'.req))
            => last'.from = "next" /\ last'.get = "skipped"
       /\ (last'.from = "handler" /\ PathDisabled(last'.req))
            => store' = store]_vars

\* ------------------------------------------------------------------ C15
\* the entries a step adds to the store
Added == { k \in DOMAIN store' : k \notin DOMAIN store }

\* the request carries a Cache-Set-TTL header holding a positive integer
ValidHeader(request) ==
    /\ request.hdr.present /\ Len(request.hdr.values) > 0
    /\ ~Atoi(request.hdr.values[1]).err
    /\ IsPositive(Atoi(request.hdr.values[1]).val)

\* C15: the entry a handler's exit stores for a request with a valid
\* Cache-Set-TTL header, its path not disabled, expires after the header's
\* number of seconds, for a success outcome and for an error outcome.
C15_HeaderTTLWins ==
    [][(/\ last'.from = "handler"
        /\ ValidHeader(last'.req)
        /\ ~PathDisabled(last'.req))
          => \A k \in Added :
                store'[k].exp = now + Small(Atoi(last'.req.hdr.values[1]).val)]_vars

\* ------------------------------------------------------------------ C16
\* the request's path has an entry in overwriteTtl
HasPathTTL(request) == URLPath(request) \in DOMAIN cfg.Cache.OverwriteTTL

\* the TTLs the rules allow for a response with this status to a request
\* without an override header: the per-path TTL of its path (for an error
\* response the error TTL is accepted too), else the default for a success
\* and the error TTL for an error
RuleTTLs(request, status) ==
    IF HasPathTTL(request)
    THEN {cfg.Cache.OverwriteTTL[URLPath(request)]}
         \cup (IF status = StatusOK THEN {} ELSE {cfg.Cache.ErrorTTL})
    ELSE IF status = StatusOK THEN {cfg.Cache.TTL}
    ELSE {cfg.Cache.ErrorTTL}

\* C16: the entry a handler's exit stores for a request without a
\* Cache-Set-TTL header expires after the per-path TTL when the request's
\* path has one, whatever the query string, and else after the default TTL
\* (success) or the error TTL (error).
C16_PathTTLApplied ==
    [][(/\ last'.from = "handler"
        /\ ~last'.req.hdr.present
        /\ ~PathDisabled(last'.req))
          => \A k \in Added :
                \E ttl \in RuleTTLs(last'.req, last'.status) :
                    store'[k].exp = now + ttl]_vars

\* ------------------------------------------------------------------ C17
\* the Cache-Set-TTL header is there but holds no positive integer
InvalidHeader(request) == request.hdr.present /\ ~ValidHeader(request)

\* C17: a request whose Cache-Set-TTL header is present but invalid, its path
\* not disabled, is answered as the same request without the header is, its
\* handler's exit calls a save, and an entry that save adds expires after the
\* TTL of the next rule: the per-path TTL of the request's path when it has
\* one, else the default TTL (for an error response the error TTL).
C17_FallsToNextRule ==
    [][(/\ last'.from = "handler"
        /\ InvalidHeader(last'.req)
        /\ ~PathDisabled(last'.req))
          => LET bare == WithHeader(last'.req, NoHeader)
                 out == HandlerOutcome(bare, FALSE, last'.up)
             IN /\ last'.status = out.status
                /\ last'.body = Marshal(out.resp)
                /\ last'.save \in {"ok", "err"}
                /\ \A k \in Added :
                      \E ttl \in RuleTTLs(last'.req, last'.status) :
                          store'[k].exp = now + ttl]_vars

\* C17, the part about the header alone: a request whose Cache-Set-TTL header
\* is present but invalid is answered as the same request without the header
\* is, and its handler's exit calls a save that leaves the store as it would
\* for the request without the header: an entry it adds expires after the
\* TTL the code's resolution gives when no header is there (error TTL for an
\* error).
C17_InvalidHeaderIgnored ==
    [][(last'.from = "handler" /\ InvalidHeader(last'.req))
         => LET bare == WithHeader(last'.req, NoHeader)
                out == HandlerOutcome(bare, FALSE, last'.up)
            IN /\ last'.status = out.status
               /\ last'.body = Marshal(out.resp)
               /\ last'.save \in {"ok", "err"}
               /\ getResponseCacheTTL(cfg.Cache, last'.req)
                    = getResponseCacheTTL(cfg.Cache, bare)
               /\ \E f \in BOOLEAN :
                     store' = SaveFor(cfg.Cache, store, now, bare, out, f).store
               /\ \A k \in Added :
                     store'[k].exp =
                        now + (IF last'.status = StatusOK
                               THEN getResponseCacheTTL(cfg.Cache, bare).ttl
                               ELSE cfg.Cache.ErrorTTL)]_vars

\* a success response to a request with an invalid header has been stored
\* with the default TTL
C17_StoredDespiteHeader ==
    /\ last.from = "handler" /\ InvalidHeader(last.req) /\ last.status = StatusOK
    /\ KeyOf(last.req) \in DOMAIN store
    /\ store[KeyOf(last.req)].exp = now + cfg.Cache.TTL
    /\ writes[KeyOf(last.req)].calls = 1

\* ------------------------------------------------------------------ C18
\* C18: with caching enabled and the path not disabled, a handler exit with
\* an error response has called saveErrCache, and that call reaches SetNX
\* with the error TTL: when the key is free and the store answers, the
\* entry is there afterwards and expires after the error TTL.
C18_ErrorPathsCached ==
    [][(/\ last'.from = "handler"
        /\ last'.status # StatusOK
        /\ cfg.Cache.IsEnabled
        /\ ~PathDisabled(last'.req))
          => /\ last'.save = "err"
             /\ \A k \in Added : store'[k].exp = now + cfg.Cache.ErrorTTL
             /\ saveErrCache(cfg.Cache, store, now, last'.req, last'.status, last'.body,
                             FALSE).calls # <<>>]_vars

\* ------------------------------------------------------------------ C19
\* m is a non-empty set of playlist ids, all effective
Seeded(m) == DOMAIN m # {} /\ \A p \in DOMAIN m : m[p]

\* C19: serving begins only from the state the successful seed fetch left,
\* that state is entered only with the non-empty set the fetch returned, a
\* seed fetch that fails or returns no id ends the process, an ended process
\* stays ended, and requests are accepted only while serving.
C19_ServesOnlySeeded ==
    /\ [][/\ (phase # "serving" /\ phase' = "serving") => phase = "seeded"
          /\ (phase # "seeded" /\ phase' = "seeded")
               => /\ phase = "boot"
                  /\ Seeded(playlistIDs')
                  /\ fetchLog' = <<[at |-> now, by |-> "seed"]>>
          /\ (phase = "boot" /\ phase' # "boot" /\ ~Seeded(playlistIDs'))
               => phase' = "exited"
          /\ phase = "exited" => phase' = "exited"
          /\ arrivals' # arrivals => phase = "serving"]_vars
    /\ []((phase \in {"seeded", "serving"} /\ arrivals = 0) => Seeded(playlistIDs))

\* the process serves a request, the seeded set in place
C19_ServingSeeded ==
    /\ phase = "serving" /\ arrivals > 0
    /\ Seeded(playlistIDs)
    /\ fetchLog = <<[at |-> 0, by |-> "seed"]>>

\* ------------------------------------------------------------ SpecBoot
\* the start of the process: config.Load, then serveMain, for configurations
\* that differ in their key-value store and cache sections

\* a nil pointer, and a pointer to x
Nil == <<>>
Ref(x) == <<x>>

\* config.RedisType
Cluster == "cluster"
Single == "single"
Sentinel == "sentinel"
Replica == "replica"

RedisAddress(addr) == [Addr |-> addr, Port |-> 6379]

RedisCluster(addrs) == [Addrs |-> addrs]
RedisSingleInstance(instance) == [Instance |-> instance]
RedisSentinel(addrs) == [Addrs |-> addrs]
RedisReplicaInstances(masters, slaves) == [MasterAddrs |-> masters, SlaveAddrs |-> slaves]

RedisService(type, cluster, single, sentinel, replica) ==
    [Type |-> type, Cluster |-> cluster, SingleInstance |-> single,
     Sentinel |-> sentinel, Replica |-> replica]

\* the characters "^[a-zA-Z0-9.-]+$" admits
AppNameChars ==
    {"a", "b", "c", "d", "e", "f", "g", "h", "i", "j", "k", "l", "m", "n", "o", "p", "q",
     "r", "s", "t", "u", "v", "w", "x", "y", "z",
     "A", "B", "C", "D", "E", "F", "G", "H", "I", "J", "K", "L", "M", "N", "O", "P", "Q",
     "R", "S", "T", "U", "V", "W", "X", "Y", "Z",
     "0", "1", "2", "3", "4", "5", "6", "7", "8", "9", ".", "-"}

\* config.Conf as unmarshalled; the application name is its characters
LoadedConf(appName, apiKey, cmsURL, channelIDs, cache, redis) ==
    [AppName |-> appName, ApiKey |-> apiKey, CmsURL |-> cmsURL, Cache |-> cache,
     Redis |-> redis, HasRedis |-> redis # Nil,
     Whitelists |-> [ChannelIDs |-> channelIDs, PlaylistIDs |-> EmptyMap]]

\* (Valid without its look at the store section)
ValidAnyStore(c) ==
    /\ c.AppName # <<>> /\ \A i \in 1..Len(c.AppName) : c.AppName[i] \in AppNameChars
    /\ c.ApiKey # ""
    /\ DOMAIN c.Whitelists.ChannelIDs # {}
    /\ c.CmsURL # ""
    /\ c.Cache.IsEnabled
         => /\ c.Cache.TTL > 0
            /\ c.Cache.ErrorTTL > 0
            /\ \A api \in DOMAIN c.Cache.OverwriteTTL : c.Cache.OverwriteTTL[api] > 0

\* every address of the list is given
AddrsGiven(addrs) == addrs # <<>> /\ \A i \in 1..Len(addrs) : addrs[i].Addr # ""

\* Conf.Valid
Valid(c) ==
    /\ c.AppName # <<>> /\ \A i \in 1..Len(c.AppName) : c.AppName[i] \in AppNameChars
    /\ c.ApiKey # ""
    /\ DOMAIN c.Whitelists.ChannelIDs # {}
    /\ c.CmsURL # ""
    /\ c.Cache.IsEnabled
         => /\ c.Cache.TTL > 0
            /\ c.Cache.ErrorTTL > 0
            /\ \A api \in DOMAIN c.Cache.OverwriteTTL : c.Cache.OverwriteTTL[api] > 0
    /\ c.Redis # Nil
         => LET redis == c.Redis[1]
            IN CASE redis.Type = Cluster ->
                      redis.Cluster # Nil /\ AddrsGiven(redis.Cluster[1].Addrs)
                 [] redis.Type = Single ->
                      redis.SingleInstance # Nil /\ redis.SingleInstance[1].Instance.Addr # ""
                 [] redis.Type = Sentinel ->
                      redis.Sentinel # Nil /\ AddrsGiven(redis.Sentinel[1].Addrs)
                 [] redis.Type = Replica ->
                      /\ redis.Replica # Nil
                      /\ AddrsGiven(redis.Replica[1].MasterAddrs)
                      /\ AddrsGiven(redis.Replica[1].SlaveAddrs)
                 [] OTHER -> FALSE

OneAddr == <<RedisAddress("h1")>>
TwoAddrs == <<RedisAddress("h1"), RedisAddress("h2")>>
BlankAddr == <<RedisAddress("h1"), RedisAddress("")>>

\* the store sections a configuration may carry
RedisConfs ==
    {Nil}
    \cup { Ref(RedisService(Cluster, s, Nil, Nil, Nil)) :
             s \in {Nil} \cup { Ref(RedisCluster(a)) : a \in {<<>>, BlankAddr, OneAddr, TwoAddrs} } }
    \cup { Ref(RedisService(Single, Nil, s, Nil, Nil)) :
             s \in {Nil} \cup { Ref(RedisSingleInstance(RedisAddress(a))) : a \in {"", "h1"} } }
    \cup { Ref(RedisService(Sentinel, Nil, Nil, s, Nil)) :
             s \in {Nil} \cup { Ref(RedisSentinel(a)) : a \in {<<>>, BlankAddr, OneAddr} } }
    \cup { Ref(RedisService(Replica, Nil, Nil, Nil, s)) :
             s \in {Nil} \cup { Ref(RedisReplicaInstances(m, sl)) :
                                  m \in {<<>>, BlankAddr, OneAddr},
                                  sl \in {<<>>, BlankAddr, TwoAddrs} } }
    \cup { Ref(RedisService(t, Ref(RedisCluster(OneAddr)), Nil, Nil, Nil)) :
             t \in {"clustered", "Cluster", "", Single} }

CacheOff == CacheConf(FALSE, EmptyMap, 0, 0, [x \in {} |-> 0])
CacheOn == CacheConf(TRUE, EmptyMap, 60, 30, [x \in {} |-> 0])

\* the configurations loaded: every store section with the cache off and on,
\* and a few that fail the checks made before the store section
BootConfs ==
    { LoadedConf(<<"y", "t", "-", "1">>, "key", "cms", ConfChannelIDs, cache, redis) :
        cache \in {CacheOff, CacheOn}, redis \in RedisConfs }
    \cup { LoadedConf(name, "key", "cms", ConfChannelIDs, CacheOff, Nil) :
             name \in {<<>>, <<"y", "_">>} }
    \cup { LoadedConf(<<"y">>, "", "cms", ConfChannelIDs, CacheOff, Nil),
           LoadedConf(<<"y">>, "key", "", ConfChannelIDs, CacheOff, Nil),
           LoadedConf(<<"y">>, "key", "cms", EmptyMap, CacheOff, Nil) }
    \cup { LoadedConf(<<"y">>, "key", "cms", ConfChannelIDs, cache, Ref(RedisService(
                          Single, Nil, Ref(RedisSingleInstance(RedisAddress("h1"))), Nil, Nil))) :
             cache \in {CacheConf(TRUE, EmptyMap, 0, 30, [x \in {} |-> 0]),
                        CacheConf(TRUE, EmptyMap, 60, 0, [x \in {} |-> 0]),
                        CacheConf(TRUE, EmptyMap, 60, 30, [x \in {SearchPath} |-> 0]),
                        CacheConf(FALSE, EmptyMap, 60, 30, [x \in {SearchPath} |-> 0])} }

InitBoot ==
    /\ phase = "load"
    /\ cfg \in BootConfs
    /\ workload = {}
    /\ now = 0
    /\ playlistIDs = cfg.Whitelists.PlaylistIDs
    /\ lastFetch = ZeroTime
    /\ mu = [writer |-> 0, readers |-> {}]
    /\ pc = [r \in Reqs |-> "idle"]
    /\ req = [r \in Reqs |-> NoRequest]
    /\ valid = [r \in Reqs |-> NoVerdict]
    /\ last = NoResp
    /\ store = EmptyMap
    /\ arrivals = 0
    /\ fetchLog = <<>>
    /\ writes = EmptyMap

\* cli.Start: config.Load, which ends the process when the file cannot be
\* read or unmarshalled or the configuration is not valid, then the command
LoadConfig ==
    /\ phase = "load"
    /\ \E readErr \in BOOLEAN :
         phase' = IF readErr \/ ~Valid(cfg) THEN "exited" ELSE "boot"
    /\ UNCHANGED <<cfg, workload, now, playlistIDs, lastFetch, mu, pc, req, valid, last,
                   store, arrivals, fetchLog, writes>>

NextBoot == LoadConfig \/ SeedPlaylists \/ StartServer \/ Tick

SpecBoot == InitBoot /\ [][NextBoot]_vars

\* ------------------------------------------------------------------ C20
StoreTypes == {Cluster, Single, Sentinel, Replica}

\* the store's type is none of the supported ones
Unsupported(c) == c.Redis # Nil /\ c.Redis[1].Type \notin StoreTypes

\* the selected type has no section of its own or no address in it
LacksAddresses(c) ==
    /\ c.Redis # Nil
    /\ LET r == c.Redis[1]
       IN \/ r.Type = Cluster /\ (r.Cluster = Nil \/ r.Cluster[1].Addrs = <<>>)
          \/ r.Type = Single
               /\ (r.SingleInstance = Nil \/ r.SingleInstance[1].Instance.Addr = "")
          \/ r.Type = Sentinel /\ (r.Sentinel = Nil \/ r.Sentinel[1].Addrs = <<>>)
          \/ r.Type = Replica
               /\ (\/ r.Replica = Nil
                   \/ r.Replica[1].MasterAddrs = <<>>
                   \/ r.Replica[1].SlaveAddrs = <<>>)

CacheWithoutStore(c) == c.Cache.IsEnabled /\ c.Redis = Nil

\* C20: a configuration whose store type is unsupported or lacks its own
\* addresses ends the process when it is loaded, before anything is fetched;
\* one that enables caching with no store ends it when the server is built;
\* with none of the three does the process reach serving.
C20_BadStoreNeverServes ==
    /\ []((Unsupported(cfg) \/ LacksAddresses(cfg) \/ CacheWithoutStore(cfg))
            => phase # "serving")
    /\ []((Unsupported(cfg) \/ LacksAddresses(cfg)) => phase \in {"load", "exited"})
    /\ [][((Unsupported(cfg) \/ LacksAddresses(cfg)) /\ phase = "load")
            => phase' = "exited"]_vars
    /\ [][(CacheWithoutStore(cfg) /\ phase = "seeded" /\ phase' # "seeded")
            => phase' = "exited"]_vars

\* a replica store with writers and no readers was turned away
C20_ReplicaWithoutReaders ==
    /\ phase = "exited"
    /\ cfg.Redis # Nil
    /\ cfg.Redis[1].Type = Replica
    /\ cfg.Redis[1].Replica # Nil
    /\ cfg.Redis[1].Replica[1].MasterAddrs = OneAddr
    /\ cfg.Redis[1].Replica[1].SlaveAddrs = <<>>

\* ------------------------------------------------------------------ C21
\* C21: with caching disabled in the configuration no step reads or writes
\* the cache store: a request goes to its handler with the Get skipped, none
\* is answered from the cache, and at a handler's exit neither saveOKCache
\* nor saveErrCache reaches SetNX, so the store stays as it was, empty.
C21_DisabledNeverTouchesStore ==
    /\ [][~cfg.Cache.IsEnabled
            => /\ store' = store /\ writes' = writes
               /\ last'.from # "cache"
               /\ last'.from = "next" => last'.get = "skipped"
               /\ last'.from = "handler"
                    => /\ saveOKCache(cfg.Cache, store, now, last'.req, last'.body,
                                      FALSE) = NoSave(store)
                       /\ saveErrCache(cfg.Cache, store, now, last'.req, last'.status,
                                       last'.body, FALSE) = NoSave(store)]_vars
    /\ [](~cfg.Cache.IsEnabled => store = EmptyMap /\ writes = EmptyMap)

\* with caching disabled a handler answered 200 and called saveOKCache
C21_AnsweredUncached ==
    /\ ~cfg.Cache.IsEnabled
    /\ last.from = "handler" /\ last.status = StatusOK /\ last.save = "ok"
    /\ store = EmptyMap

\* ------------------------------------------------------------------ C22
\* C22: a lookup that got the exclusive lock looks the id up again before it
\* looks at the cooldown: when the id is effective by then it returns true
\* and makes no fetch, inside the cooldown window too; and a lookup returns
\* false only when the id was not effective in the set it last looked at
\* under the lock (the set as it was at the re-check, or the fetched one).
C22_RecheckBeforeCooldown ==
    [][\A r \in Reqs :
         /\ (pc[r] = "lockwait" /\ pc'[r] # "lockwait"
               /\ EffectiveIn(playlistIDs, IdOf(r)))
              => /\ valid'[r] = Verdict(TRUE, "recheck", EmptyMap)
                 /\ pc'[r] = "validated"
                 /\ fetchLog' = fetchLog
                 /\ UNCHANGED <<playlistIDs, lastFetch>>
                 /\ mu'.writer = 0
         /\ (pc[r] \in {"lockwait", "fetching"} /\ pc'[r] = "validated"
               /\ ~valid'[r].ret)
              => ~EffectiveIn(playlistIDs', IdOf(r))]_vars

\* a lookup that missed found the id effective at its re-check, inside the
\* cooldown window that another request's fetch opened
C22_RecheckHitInCooldown ==
    \E r \in Reqs :
        /\ pc[r] = "validated"
        /\ valid[r] = Verdict(TRUE, "recheck", EmptyMap)
        /\ WithinCooldown
        /\ fetchLog[Len(fetchLog)].by = "refresh"

\* ------------------------------------------------------------------ C23
\* C23: once the server runs, the playlist set and the last-fetch timestamp
\* change only in the step of the request that holds the exclusive lock, with
\* no shared holder; a request looks at them only as a shared holder, or on
\* taking the exclusive lock when nobody holds the lock, or as the exclusive
\* holder; shared holders and an exclusive holder never coexist, so no
\* request reads the set while another is replacing it.
C23_LockGuardsSet ==
    /\ [][(phase = "serving" /\ (playlistIDs' # playlistIDs \/ lastFetch' # lastFetch))
            => \E r \in Reqs :
                  /\ pc[r] = "fetching" /\ mu.writer = r /\ mu.readers = {}
                  /\ pc'[r] = "validated"]_vars
    /\ [][\A r \in Reqs :
            /\ (pc[r] = "rlocked" /\ pc'[r] # "rlocked")
                 => r \in mu.readers /\ mu.writer = 0 /\ r \notin mu'.readers
            /\ (pc[r] = "lockwait" /\ pc'[r] # "lockwait")
                 => mu.writer = 0 /\ mu.readers = {}
            /\ (pc[r] = "fetching" /\ pc'[r] # "fetching")
                 => mu.writer = r /\ mu.readers = {} /\ mu'.writer = 0]_vars
    /\ [](/\ mu.writer # 0 => mu.readers = {}
          /\ mu.readers = { r \in Reqs : pc[r] = "rlocked" }
          /\ \A r \in Reqs : pc[r] = "fetching" <=> mu.writer = r
          /\ ~\E r1, r2 \in Reqs : pc[r1] = "rlocked" /\ pc[r2] = "fetching")

\* a request is replacing the set while another's lookup is parked inside
\* RLock
C23_ReaderKeptOut ==
    \E r1, r2 \in Reqs :
        /\ pc[r1] = "fetching" /\ mu.writer = r1
        /\ pc[r2] = "rblocked" /\ r2 \notin mu.readers

\* ------------------------------------------------------------ SpecLive
\* the running server with the steps of a lookup taken whenever they stay
\* possible: a goroutine that can take or release the lock is scheduled, and
\* the external fetch returns
LookupFairness ==
    \A r \in Reqs :
        /\ WF_vars(RLock(r))
        /\ WF_vars(ReadCheck(r))
        /\ WF_vars(Lock(r))
        /\ WF_vars(Refresh(r))
        /\ WF_vars(FetchReturn(r))

SpecLive == InitApi /\ [][NextApi]_vars /\ LookupFairness

\* ------------------------------------------------------------------ C24
\* the requests inside ValidatePlaylistIDs, or about to call it
InLookup ==
    { r \in Reqs :
        \/ pc[r] \in {"rblocked", "rlocked", "missed", "lockwait", "fetching"}
        \/ pc[r] = "handler" /\ req[r].name = "playlistItems"
             /\ ~PlaylistItemsRejects(req[r].q) }

\* C24: every call of ValidatePlaylistIDs returns, on each of its paths,
\* given that the external fetch returns; a request that is not inside the
\* locked part of a call holds neither the shared nor the exclusive lock;
\* and whenever some request is inside a call, some request's call can take
\* its next step.
C24_LookupsTerminate ==
    /\ \A r \in Reqs : (r \in InLookup) ~> (pc[r] = "validated")
    /\ [](\A r \in Reqs :
            pc[r] \in {"idle", "handler", "rblocked", "missed", "lockwait", "validated"}
              => r \notin mu.readers /\ mu.writer # r)
    /\ [](InLookup # {}
            => \E r \in Reqs :
                  ENABLED (RLock(r) \/ ReadCheck(r) \/ Lock(r) \/ Refresh(r) \/ FetchReturn(r)))

\* two lookups have returned, one after a failed fetch and one on the
\* cooldown, and the lock is free
C24_ReturnedAndReleased ==
    \E r1, r2 \in Reqs :
        /\ pc[r1] = "validated" /\ valid[r1].via = "failed"
        /\ pc[r2] = "validated" /\ valid[r2].via = "cooldown"
        /\ mu = [writer |-> 0, readers |-> {}]

\* ------------------------------------------------------------------ C25
\* C25: the server starts with the zero last-fetch timestamp, whenever the
\* seed fetch was made, and keeps it until a lookup's fetch returns; so the
\* first lookup that takes the lock with its id not effective finds the
\* cooldown elapsed and calls the external fetch, however short the time
\* since the seed fetch.
C25_FirstMissFetches ==
    /\ [][(phase = "seeded" /\ phase' = "serving") => lastFetch' = ZeroTime]_vars
    /\ []((phase = "serving" /\ Refreshes(fetchLog) = <<>>) => lastFetch = ZeroTime)
    /\ [][\A r \in Reqs :
            (/\ pc[r] = "lockwait" /\ pc'[r] # "lockwait"
             /\ Refreshes(fetchLog) = <<>>
             /\ ~EffectiveIn(playlistIDs, IdOf(r)))
              => /\ pc'[r] = "fetching"
                 /\ fetchLog' = Logged(fetchLog, [at |-> now, by |-> "refresh"])]_vars

\* the first miss is fetching, less than a cooldown after the seed fetch
C25_FetchSoonAfterSeed ==
    \E r \in Reqs :
        /\ pc[r] = "fetching"
        /\ Len(fetchLog) = 2
        /\ fetchLog[1].by = "seed" /\ fetchLog[2].by = "refresh"
        /\ fetchLog[2].at - fetchLog[1].at < refreshCooldown
        /\ lastFetch = ZeroTime

\* -------------------------------------------------------------- SpecTTL
\* the server behind configurations that config.Load accepts, with requests
\* whose Cache-Set-TTL header runs from missing to the largest int
TwoTo55 ==
    <<"3", "6", "0", "2", "8", "7", "9", "7", "0", "1", "8", "9", "6", "3", "9", "6", "8">>
PastDurationRange == <<"9", "2", "2", "3", "3", "7", "2", "0", "3", "7">>

HeaderValues ==
    { <<"1">>, <<"4", "5">>, <<"0">>, <<"-", "5">>, <<"a", "b">>,
      PastDurationRange, TwoTo55, [TwoTo55 EXCEPT ![17] = "9"],
      MaxInt64Digits, MinInt64Digits }

OneStore == Ref(RedisService(Single, Nil, Ref(RedisSingleInstance(RedisAddress("h1"))),
                             Nil, Nil))

\* cache sections, the non-positive TTLs among them that Valid turns down
TTLConfs ==
    { LoadedConf(<<"y", "t">>, "key", "cms", ConfChannelIDs,
                 CacheConf(TRUE, EmptyMap, ttl, errTtl, overwrite), OneStore) :
        ttl \in {0, 60}, errTtl \in {0 - 1, 30},
        overwrite \in { [x \in {} |-> 0],
                        [x \in {VideosPath, RequestURI(VideosReq("v1", NoHeader))} |-> 90],
                        [x \in {VideosPath} |-> 0] } }

TTLWorkloads ==
    { { WithHeader(SearchReq("C1"), Header(v)) : v \in HeaderValues }
        \cup {SearchReq("C1")},
      { WithHeader(SearchReq("C2"), Header(v)) : v \in {<<"4", "5">>, TwoTo55} }
        \cup { VideosReq("v1", Header(v)) : v \in {<<"4", "5">>, PastDurationRange} }
        \cup { VideosReq("v1", NoHeader), Request(V3Dir, "videos", NoQuery, NoHeader),
               VideosReq("", Header(TwoTo55)) } }

InitTTL ==
    /\ phase = "serving"
    /\ cfg \in { c \in TTLConfs : Valid(c) }
    /\ workload \in TTLWorkloads
    /\ now = 0
    /\ playlistIDs = [p \in {"P1"} |-> TRUE]
    /\ lastFetch = ZeroTime
    /\ mu = [writer |-> 0, readers |-> {}]
    /\ pc = [r \in Reqs |-> "idle"]
    /\ req = [r \in Reqs |-> NoRequest]
    /\ valid = [r \in Reqs |-> NoVerdict]
    /\ last = NoResp
    /\ store = EmptyMap
    /\ arrivals = 0
    /\ fetchLog = <<[at |-> 0, by |-> "seed"]>>
    /\ writes = EmptyMap

SpecTTL == InitTTL /\ [][NextCache]_vars

\* ------------------------------------------------------------------ C26
\* the duration, in seconds, a handler's exit hands to SetNX
IssuedTTL(request, save) ==
    IF save = "ok" THEN getResponseCacheTTL(cfg.Cache, request).ttl
    ELSE Seconds(Duration(Int64Of(cfg.Cache.ErrorTTL)))

\* C26: with a configuration that passed Valid, every save that reaches
\* SetNX does so with a positive duration, never a zero one (an entry
\* without expiry) or a negative one, and an entry a step adds to the store
\* expires after that duration.
C26_PositiveTTL ==
    [][(/\ cfg.Cache.IsEnabled
        /\ last'.from = "handler" /\ last'.save # "none"
        /\ ~getResponseCacheTTL(cfg.Cache, last'.req).isDisabled)
         => /\ IssuedTTL(last'.req, last'.save) > 0
            /\ \A k \in Added :
                  store'[k].exp = now + IssuedTTL(last'.req, last'.save)]_vars

\* ------------------------------------------------------------------ C27
\* C27: the entry a handler's exit adds to the store lies under the key that
\* the entry checkpoint derives for the same request: the application name
\* and the URL with its path under /youtube/v3/ (as rewritten, when the
\* request came in under /api/youtube/) and its query string as received.
\* So the entry checkpoint, for the same request and for any request of the
\* workload with the same URL after rewriting, its path not disabled and
\* its read answered, finds that entry and answers with what was stored.
C27_SameKeyBothEnds ==
    [][(last'.from = "handler" /\ cfg.Cache.IsEnabled)
         => \A k \in Added :
               /\ k = GetCacheKey(AppName,
                                  WithQuery(<<V3Dir, last'.req.name>>, last'.req.q)).key
               /\ \A q \in workload \cup {last'.req} :
                     (/\ URLString(Rewrite(q)) = URLString(last'.req)
                      /\ ~PathDisabled(Rewrite(q)))
                       => LET mw == Cache(cfg.Cache, store', Rewrite(q), FALSE)
                          IN /\ mw.kind = "hit"
                             /\ mw.body = UnmarshalHTTP(store'[k].val).Response
                             /\ mw.body = last'.body]_vars

\* a request that came in under /api/youtube/ was answered from the cache
C27_RewrittenHit ==
    /\ last.from = "cache" /\ last.get = "entry"
    /\ last.req.rdir = ApiDir /\ last.req.dir = V3Dir
    /\ writes[KeyOf(last.req)].applied = 1

====
